---- MODULE Spec2Model ----
(***************************************************************************)
(* A model of the MetaTrader trading bot of src/Trading-Bot.                *)
(*                                                                         *)
(* The broker (the MT5 terminal) owns the position book; the bot reads a    *)
(* snapshot of it with positions_get and sends orders with order_send.      *)
(* Prices are integers in tenths of a point (point_value units per point),  *)
(* quotes have no spread (ask = bid), and every quoted price is a whole     *)
(* number of points, so the float expressions of the source (x * 0.8,       *)
(* x * 0.5, price_diff / point_value) are exact in the model.               *)
(* A position comment is the sequence of its characters, so that            *)
(* str.split('_') and str.startswith are computed as the source does.       *)
(***************************************************************************)
EXTENDS Integers, Sequences, FiniteSets, TLC

VARIABLES
    book,           \* broker: open positions, ticket -> position record
    nextTicket,     \* broker: the ticket the next accepted open gets
    bid,            \* broker: current quote (ask = bid)
    conn,           \* the process-wide MT5 connection: "up", "down" (lost),
                    \* "shutdown" (closed by a stop request) or "dead" (lost
                    \* for good: no initialize brings it back)
    clock,          \* "weekday", or "saturday_midnight": Saturday 00:00-00:05
                    \* Philippine time
    cfg,            \* per bot: the TradingBot attributes set by __init__
    running,        \* per bot: self.running
    pc,             \* per bot: where the bot thread stands in run()
    retry_count,    \* per bot: the local retry_count of run()
    error_message,  \* per bot: self.error_message
    loc,            \* per bot: locals of the call the thread is inside
    log,            \* the broker calls of the latest handler run, in order
    lastSent,       \* per ticket: last trailing stop sent since its profit last fell
    bot_instances,  \* the registry of app.py: key -> the TradingBot stored
                    \* under it (0: no entry)
    sweeps          \* how many cycles of the current Saturday-midnight window
                    \* sent weekend closes

vars == <<book, nextTicket, bid, conn, clock, cfg, running, pc, retry_count,
          error_message, loc, log, lastSent, bot_instances, sweeps>>

brokerVars == <<book, nextTicket, bid, conn>>
\* what the request handlers set up: the attributes of the bots and the registry
appVars == <<cfg, bot_instances>>
botVars == <<appVars, running, pc, retry_count, error_message, loc, sweeps>>

-----------------------------------------------------------------------------
(* Bounds of the model *)

\* tickets the broker hands out in one behaviour
MaxTicket == 5
\* positions opened by hand in one behaviour
MaxExternal == 2
\* positions of the trailing entry in one behaviour
MaxTrailed == 1
\* orders the broker rejects in one handler run
MaxRejects == 2
\* the weekend sweeps of one window are counted up to this number
MaxSweeps == 2
\* the highest layer number and the positions per layer of the tag encoder
MaxLayerNum == 10
TagPositions == 10

-----------------------------------------------------------------------------
(* Strings *)

Digit(n) ==
    CASE n = 0 -> "0" [] n = 1 -> "1" [] n = 2 -> "2" [] n = 3 -> "3"
      [] n = 4 -> "4" [] n = 5 -> "5" [] n = 6 -> "6" [] n = 7 -> "7"
      [] n = 8 -> "8" [] OTHER -> "9"

\* str(n) of a non-negative integer below 100
Str(n) ==
    IF n < 10 THEN <<Digit(n)>> ELSE <<Digit(n \div 10), Digit(n % 10)>>

\* f"{a}_{b}"
U(a, b) ==
    a \o <<"_">> \o b

FirstUnderscore(s) ==
    IF \E i \in 1..Len(s) : s[i] = "_"
    THEN CHOOSE i \in 1..Len(s) : s[i] = "_" /\ \A j \in 1..(i - 1) : s[j] # "_"
    ELSE 0

RECURSIVE Split(_)
\* s.split('_')
Split(s) ==
    LET i == FirstUnderscore(s)
    IN  IF i = 0 THEN <<s>>
        ELSE <<SubSeq(s, 1, i - 1)>> \o Split(SubSeq(s, i + 1, Len(s)))

\* s.startswith(p)
StartsWith(s, p) ==
    Len(s) >= Len(p) /\ SubSeq(s, 1, Len(p)) = p

sTSL == <<"T", "S", "L">>
sPROG == <<"P", "R", "O", "G">>
sHYBRID == <<"H", "Y", "B", "R", "I", "D">>
sACE == <<"A", "C", "E">>
sDDL == <<"D", "D", "L">>
sEXIT == <<"E", "X", "I", "T">>
sL == <<"L">>
sDefault == <<"d", "e", "f", "a", "u", "l", "t">>
sBuy == <<"b", "u", "y">>
sSell == <<"s", "e", "l", "l">>
sSymbol == <<"E", "U", "R", "U", "S", "D">>

-----------------------------------------------------------------------------
(* The broker *)

\* symbol_info.point, in price units
point_value == 10

\* the quote that lies the given number of points above the first one
PriceAt(points) ==
    (1000 + points) * point_value

Tickets == 1..MaxTicket

\* positions_get(symbol=...): the open positions, in ticket order
RECURSIVE SnapshotFrom(_, _)
SnapshotFrom(b, t) ==
    IF t > MaxTicket + 1 THEN <<>>
    ELSE (IF t \in DOMAIN b THEN <<b[t]>> ELSE <<>>) \o SnapshotFrom(b, t + 1)

positions_get(b) ==
    SnapshotFrom(b, 1)

IsBuy(p) ==
    p.type = 0

\* pos.price_current of a position at quote q
price_current(p, q) ==
    q

\* the broker closes a position whose stop-loss or take-profit the quote reaches
Triggered(p, q) ==
    IF IsBuy(p)
    THEN (p.sl # 0 /\ q <= p.sl) \/ (p.tp # 0 /\ q >= p.tp)
    ELSE (p.sl # 0 /\ q >= p.sl) \/ (p.tp # 0 /\ q <= p.tp)

Remove(b, t) ==
    [u \in DOMAIN b \ {t} |-> b[u]]

NewPosition(t, type, price, sl, tp, magic, comment) ==
    [ticket |-> t, type |-> type, price_open |-> price, sl |-> sl, tp |-> tp,
     volume |-> 1, magic |-> magic, comment |-> comment]

NoPosition ==
    NewPosition(0, 0, 0, 0, 0, 0, <<>>)

\* signed profit of a position in points at quote q
profit_points(p, q) ==
    (IF IsBuy(p) THEN price_current(p, q) - p.price_open
     ELSE p.price_open - price_current(p, q)) \div point_value

-----------------------------------------------------------------------------
(* Broker calls.  A handler turns the snapshot it read into a queue of      *)
(* calls; the calls are then made one at a time against the live book.      *)
(* rej is the set of calls, counted within the handler run, whose order the *)
(* broker rejects.                                                          *)

Call(kind, engine, p, price, batch, rollback) ==
    [kind |-> kind, engine |-> engine, ticket |-> p.ticket, price |-> price,
     snap |-> p, batch |-> batch, rollback |-> rollback]

\* self.close_position(pos.ticket)
CloseCall(engine, p) ==
    Call("close", engine, p, 0, 0, FALSE)

\* self.modify_position_sl(pos.ticket, new_sl)
SlCall(engine, p, new_sl) ==
    Call("sl", engine, p, new_sl, 0, FALSE)

\* self.modify_position_tp(pos.ticket, new_tp)
TpCall(engine, p, new_tp) ==
    Call("tp", engine, p, new_tp, 0, FALSE)

\* mt5.order_send of a TRADE_ACTION_DEAL request that opens the position p
OpenCall(engine, p, batch, rollback) ==
    Call("open", engine, p, p.price_open, batch, rollback)

\* the record of one call: res is "done", "rejected", "notfound" (no order
\* was sent) or "error" (the call raised); live is the position as the broker
\* held it when the order arrived and open_count the number of positions it
\* held then; prev is the trailing stop sent before; link is the state of the
\* connection at the call
Logged(c, b, res, t, st, link) ==
    [kind |-> c.kind, engine |-> c.engine, bot |-> b, ticket |-> t,
     price |-> c.price, snap |-> c.snap, batch |-> c.batch, res |-> res,
     live |-> IF t \in DOMAIN st.book THEN st.book[t] ELSE NoPosition,
     prev |-> IF t \in DOMAIN st.sent THEN st.sent[t] ELSE 0,
     open_count |-> Cardinality(DOMAIN st.book), link |-> link]

ExecState(b0, next, queue) ==
    [book |-> b0, next |-> next, log |-> <<>>, n |-> 0, queue |-> queue,
     opened |-> <<>>, sent |-> lastSent]

RECURSIVE DropBatch(_, _)
\* the calls left once the opens of an abandoned batch are taken out
DropBatch(q, batch) ==
    IF q = <<>> THEN <<>>
    ELSE IF Head(q).kind = "open" /\ Head(q).batch = batch
         THEN DropBatch(Tail(q), batch)
         ELSE <<Head(q)>> \o DropBatch(Tail(q), batch)

RECURSIVE RollbackCalls(_, _, _)
\* for pos in positions: self.close_position(pos)
RollbackCalls(engine, opened, b0) ==
    IF opened = <<>> THEN <<>>
    ELSE <<CloseCall(engine, IF Head(opened) \in DOMAIN b0 THEN b0[Head(opened)]
                             ELSE [NoPosition EXCEPT !.ticket = Head(opened)])>>
         \o RollbackCalls(engine, Tail(opened), b0)

\* a handler that gives up at the first order the broker rejects
ExecModifyAborting(st, c, b, rej, link) ==
    IF link # "up" \/ c.ticket \notin DOMAIN st.book
    THEN [st EXCEPT !.queue = Tail(st.queue), !.n = st.n + 1,
                    !.log = Append(@, Logged(c, b, "notfound", c.ticket, st, link))]
    ELSE IF st.n + 1 \in rej
    THEN [st EXCEPT !.queue = <<>>, !.n = st.n + 1,
                    !.log = Append(@, Logged(c, b, "rejected", c.ticket, st, link))]
    ELSE [st EXCEPT !.queue = Tail(st.queue), !.n = st.n + 1,
                    !.log = Append(@, Logged(c, b, "done", c.ticket, st, link)),
                    !.book = CASE c.kind = "close" -> Remove(@, c.ticket)
                               [] c.kind = "sl" -> [@ EXCEPT ![c.ticket].sl = c.price]
                               [] OTHER -> [@ EXCEPT ![c.ticket].tp = c.price]]

\* close_position / modify_position_sl / modify_position_tp on the live book
ExecModify(st, c, b, rej, link) ==
    LET t == c.ticket
        n == st.n + 1
        up == link = "up"
        trail == c.engine = "trailing" /\ c.kind = "sl"
        rest == Tail(st.queue)
    IN  IF ~up \/ t \notin DOMAIN st.book
        THEN \* positions_get(ticket=ticket) is empty: "not found", no order
             [st EXCEPT !.queue = rest, !.n = n,
                        !.log = Append(@, Logged(c, b, "notfound", t, st, link))]
        ELSE IF n \in rej
        THEN [st EXCEPT !.queue = rest, !.n = n,
                        !.log = Append(@, Logged(c, b, "rejected", t, st, link)),
                        !.sent = IF trail THEN [@ EXCEPT ![t] = c.price] ELSE @]
        ELSE [st EXCEPT !.queue = rest, !.n = n,
                        !.log = Append(@, Logged(c, b, "done", t, st, link)),
                        !.book = CASE c.kind = "close" -> Remove(@, t)
                                   [] c.kind = "sl" -> [@ EXCEPT ![t].sl = c.price]
                                   [] OTHER -> [@ EXCEPT ![t].tp = c.price],
                        !.sent = IF c.kind = "close" THEN [@ EXCEPT ![t] = 0]
                                 ELSE IF trail THEN [@ EXCEPT ![t] = c.price]
                                 ELSE @]

\* one mt5.order_send that opens a position, and what the caller does with
\* its result
ExecOpen(st, c, b, rej, link) ==
    LET t == st.next
        up == link = "up"
        n == st.n + 1
        rest == Tail(st.queue)
        lastOfBatch == ~\E i \in 1..Len(rest) :
                           rest[i].kind = "open" /\ rest[i].batch = c.batch
    IN  IF ~up
        THEN \* order_send returns None and result.retcode raises: the try
             \* block of the engine ends, without a rollback
             [st EXCEPT !.queue = SelectSeq(rest, LAMBDA d : d.engine # c.engine),
                        !.n = n, !.opened = <<>>,
                        !.log = Append(@, Logged(c, b, "error", 0, st, link))]
        ELSE IF n \notin rej /\ t <= MaxTicket
        THEN [st EXCEPT !.queue = rest, !.n = n, !.next = t + 1,
                        !.book = [u \in DOMAIN @ \cup {t} |->
                                     IF u = t THEN [c.snap EXCEPT !.ticket = t]
                                     ELSE @[u]],
                        !.opened = IF lastOfBatch THEN <<>> ELSE Append(@, t),
                        !.log = Append(@, Logged(c, b, "done", t, st, link))]
        ELSE IF c.rollback
        THEN [st EXCEPT !.queue = RollbackCalls(c.engine, st.opened, st.book)
                                    \o DropBatch(rest, c.batch),
                        !.n = n, !.opened = <<>>,
                        !.log = Append(@, Logged(c, b, "rejected", 0, st, link))]
        ELSE [st EXCEPT !.queue = rest, !.n = n,
                        !.opened = IF lastOfBatch THEN <<>> ELSE @,
                        !.log = Append(@, Logged(c, b, "rejected", 0, st, link))]

\* the next broker call of the handler
ExecOne(st, b, rej, link) ==
    LET c == Head(st.queue)
    IN  IF c.kind = "open" THEN ExecOpen(st, c, b, rej, link)
        ELSE ExecModify(st, c, b, rej, link)

RECURSIVE ExecAll(_, _, _, _)
\* the handler runs to its end
ExecAll(st, b, rej, link) ==
    IF st.queue = <<>> THEN st
    ELSE ExecAll(ExecOne(st, b, rej, link), b, rej, link)


-----------------------------------------------------------------------------
(* Helpers on sequences *)

RECURSIVE Dedup(_)
\* the distinct elements of s, in the order of their first occurrence (the
\* key order of a dict filled while iterating s)
Dedup(s) ==
    IF s = <<>> THEN <<>>
    ELSE LET r == Dedup(SubSeq(s, 1, Len(s) - 1))
         IN  IF \E i \in 1..Len(r) : r[i] = s[Len(s)] THEN r
             ELSE Append(r, s[Len(s)])

RECURSIVE Flatten(_)
Flatten(ss) ==
    IF ss = <<>> THEN <<>> ELSE Head(ss) \o Flatten(Tail(ss))

\* math.ceil(a / b) for a > 0, b > 0
CeilDiv(a, b) ==
    (a + b - 1) \div b

Min(a, b) ==
    IF a <= b THEN a ELSE b

-----------------------------------------------------------------------------
(* TrailingCheckpoint engine: TradingBot.manage_trailing_sl *)

\* checkpoint_size = tp_points / self.dynamic_checkpoints (an exact quotient
\* for the configurations of the model)
checkpoint_size(c) ==
    c.trailing_tp_points \div c.dynamic_checkpoints

\* the loop over range(1, self.dynamic_checkpoints + 1)
current_checkpoint(c, pp) ==
    LET reached == {i \in 1..c.dynamic_checkpoints : pp >= checkpoint_size(c) * i}
    IN  IF reached = {} THEN 0
        ELSE CHOOSE i \in reached : \A j \in reached : j <= i

\* lock_in_points, in tenths of a point
lock_in_tenths(c, pp) ==
    LET k == current_checkpoint(c, pp)
        progress_to_next == pp - checkpoint_size(c) * (k - 1)
    IN  (k - 1) * checkpoint_size(c) * 8
        + (IF 10 * progress_to_next > 3 * checkpoint_size(c)
           THEN progress_to_next * 4 ELSE 0)

\* new_sl for a position that reached a checkpoint
trailing_new_sl(c, p, q) ==
    LET pp == profit_points(p, q)
        new_sl_units == (lock_in_tenths(c, pp) * point_value) \div 10
    IN  IF current_checkpoint(c, pp) = 1 THEN p.price_open
        ELSE IF IsBuy(p) THEN p.price_open + new_sl_units
        ELSE p.price_open - new_sl_units

\* the engine without its "only update if better" test
trailing_always(p, new_sl) ==
    TRUE

\* "Only update if new SL is better than current SL"
trailing_better(p, new_sl) ==
    IF IsBuy(p) THEN p.sl = 0 \/ new_sl > p.sl
    ELSE p.sl = 0 \/ new_sl < p.sl

\* the body of the loop of manage_trailing_sl for one position
TrailingCallsFor(c, p, q) ==
    IF p.comment = <<>> \/ ~StartsWith(p.comment, sTSL \o <<"_">>) THEN <<>>
    ELSE IF Len(Split(p.comment)) < 3 THEN <<>>
    ELSE IF current_checkpoint(c, profit_points(p, q)) = 0 THEN <<>>
    ELSE IF trailing_better(p, trailing_new_sl(c, p, q))
         THEN <<SlCall("trailing", p, trailing_new_sl(c, p, q))>>
         ELSE <<>>

manage_trailing_sl(c, ps, q) ==
    Flatten([i \in 1..Len(ps) |-> TrailingCallsFor(c, ps[i], q)])


-----------------------------------------------------------------------------
(* ExitSignalMaxTP engine: TradingBot.manage_exit_signal_positions *)

\* the frame of 2 bars gives rolling(window=20) nothing but NaN, fillna(0)
\* makes smi_signal 0 on both bars and so are both values of its EMA
smi_signal_ema ==
    <<0, 0>>

\* a signal that reports a crossing on every cycle
ema_crossed_always ==
    TRUE

ema_crossed_midline ==
    LET prev_smi_ema == smi_signal_ema[1]
        current_smi_ema == smi_signal_ema[2]
    IN  \/ prev_smi_ema > 0 /\ current_smi_ema <= 0
        \/ prev_smi_ema < 0 /\ current_smi_ema >= 0

max_tp_hit(c, ps, q) ==
    \E i \in 1..Len(ps) : profit_points(ps[i], q) >= c.tp_points

\* profit_percentage >= 0.02, with profit_percentage =
\* (profit_points * point_value) / pos.price_open * 100
profit_percentage_reached(p, q) ==
    profit_points(p, q) * point_value * 10000 >= 2 * p.price_open

\* the engine closing only the positions that reached tp_points themselves
exit_closes_reached_only(c, ps, q) ==
    IF ps = <<>> THEN <<>>
    ELSE IF max_tp_hit(c, ps, q)
    THEN Flatten([i \in 1..Len(ps) |->
                     IF profit_points(ps[i], q) >= c.tp_points
                     THEN <<CloseCall("exit", ps[i])>> ELSE <<>>])
    ELSE <<>>

manage_exit_signal_positions(c, ps, q) ==
    IF ps = <<>> THEN <<>>
    ELSE IF max_tp_hit(c, ps, q)
    THEN [i \in 1..Len(ps) |-> CloseCall("exit", ps[i])]
    ELSE IF ema_crossed_midline
    THEN Flatten([i \in 1..Len(ps) |->
                     IF profit_percentage_reached(ps[i], q)
                     THEN <<CloseCall("exit", ps[i])>> ELSE <<>>])
    ELSE <<>>

-----------------------------------------------------------------------------
(* ProgressiveLockIn engine: TradingBot.manage_progressive_positions *)

IsProgressiveTag(p) ==
    /\ p.comment # <<>>
    /\ \/ StartsWith(p.comment, sPROG \o <<"_">>)
       \/ StartsWith(p.comment, sHYBRID \o <<"_">>)

\* position_groups: the positions of each setup id, in dict order
progressive_groups(ps) ==
    LET tagged == SelectSeq(ps, IsProgressiveTag)
        ids == Dedup([i \in 1..Len(tagged) |-> Split(tagged[i].comment)[2]])
    IN  [k \in 1..Len(ids) |->
            SelectSeq(tagged, LAMBDA p : Split(p.comment)[2] = ids[k])]

\* the engine as it would run if positions could take a new attribute: the
\* group sorted by position number, the first closed at its target and the
\* others moved to their open price, the second closed and the third moved
\* to positive_sl_points, a position without stop moved to its open price
manage_progressive_positions_written(c, ps, q) ==
    LET groups == progressive_groups(ps)
        number(p) ==
            LET parts == Split(p.comment)
            IN  IF Len(parts) < 3 THEN 0
                ELSE CASE parts[3] = <<"1">> -> 1
                       [] parts[3] = <<"2">> -> 2
                       [] parts[3] = <<"3">> -> 3
                       [] OTHER -> 0
        sorted(g) ==
            SortSeq(g, LAMBDA x, y :
                \/ number(x) < number(y)
                \/ number(x) = number(y) /\ x.ticket < y.ticket)
        reached(p) ==
            profit_points(p, q) * c.positions_per_setup
                >= c.tp_points * number(p)
        of_position(g, i) ==
            (IF i = 1 /\ reached(g[i])
             THEN <<CloseCall("progressive", g[i])>>
                  \o [j \in 1..(Len(g) - 1) |->
                        SlCall("progressive", g[j + 1], g[j + 1].price_open)]
             ELSE IF i = 2 /\ reached(g[i])
             THEN <<CloseCall("progressive", g[i])>>
                  \o (IF Len(g) > 2
                      THEN <<SlCall("progressive", g[3],
                               IF IsBuy(g[3])
                               THEN g[3].price_open
                                      + c.positive_sl_points * point_value
                               ELSE g[3].price_open
                                      - c.positive_sl_points * point_value)>>
                      ELSE <<>>)
             ELSE <<>>)
            \o (IF profit_points(g[i], q) >= c.breakeven_trigger_points
                   /\ g[i].sl = 0
                THEN <<SlCall("progressive", g[i], g[i].price_open)>>
                ELSE <<>>)
        of_group(g) ==
            IF Len(g) < 2 THEN <<>>
            ELSE Flatten([i \in 1..Len(g) |-> of_position(sorted(g), i)])
    IN  Flatten([k \in 1..Len(groups) |-> of_group(groups[k])])

\* A group of fewer than 2 positions is skipped.  For a larger group the
\* engine stores pos.position_number on the position; positions_get returns
\* named tuples, the assignment raises AttributeError, the sort falls back to
\* the unsorted group, reading pos.position_number raises again and the
\* except clause of the engine ends it: no call is made for any group.
manage_progressive_positions(c, ps, q) ==
    LET groups == progressive_groups(ps)
    IN  IF \E k \in 1..Len(groups) : Len(groups[k]) >= 2
        THEN <<>>
        ELSE <<>>

-----------------------------------------------------------------------------
(* DrawdownLayering engine: manage_drawdown_layers, add_layer,              *)
(* adjust_take_profits                                                      *)

\* f"default_{self.symbol}_{'buy' if is_buy else 'sell'}"
default_setup_id(is_buy) ==
    U(U(sDefault, sSymbol), IF is_buy THEN sBuy ELSE sSell)

\* the position is put in the group of the setup id of its comment
in_setup_group(p) ==
    /\ p.comment # <<>>
    /\ Len(Split(p.comment)) >= 2
    /\ Split(p.comment)[1] \in {sACE, sPROG, sTSL, sEXIT}

group_key(p, is_buy) ==
    IF in_setup_group(p) THEN Split(p.comment)[2] ELSE default_setup_id(is_buy)

\* the keys of position_groups, in dict order
group_keys(ps, is_buy) ==
    Dedup(<<default_setup_id(is_buy)>>
          \o [i \in 1..Len(ps) |-> group_key(ps[i], is_buy)])

setup_positions(ps, is_buy, key) ==
    SelectSeq(ps, LAMBDA p : group_key(p, is_buy) = key)

RECURSIVE SumOpen(_)
\* sum(pos.price_open * pos.volume for pos in positions), every volume 1
SumOpen(ps) ==
    IF ps = <<>> THEN 0 ELSE Head(ps).price_open + SumOpen(Tail(ps))

\* the distance of the quote from the average entry, on either side of it
DrawdownAbs(g, is_buy, q) ==
    IF SumOpen(g) >= Len(g) * q THEN SumOpen(g) - Len(g) * q
    ELSE Len(g) * q - SumOpen(g)

\* drawdown_points is DrawdownNum / DrawdownDen
DrawdownNum(g, is_buy, q) ==
    IF is_buy THEN SumOpen(g) - Len(g) * q ELSE Len(g) * q - SumOpen(g)

DrawdownDen(g) ==
    Len(g) * point_value

existing_layers(g) ==
    {Split(g[i].comment)[4] : i \in {j \in 1..Len(g) :
        /\ g[j].comment # <<>>
        /\ Len(Split(g[j].comment)) > 3
        /\ StartsWith(Split(g[j].comment)[4], sL)}}

required_layers(c, g, is_buy, q) ==
    Min(CeilDiv(DrawdownNum(g, is_buy, q),
                DrawdownDen(g) * c.drawdown_layer_threshold),
        c.max_layers)

comment_prefix(c, setup_id) ==
    IF StartsWith(setup_id, sDefault \o <<"_">>)
    THEN (IF c.enable_progressive /\ c.enable_drawdown_layering
          THEN sHYBRID ELSE sDDL)
    ELSE sACE

\* f"{comment_prefix}_{setup_id}_L{layer_num}_{position_num}", cut to the 31
\* characters of an MT5 comment
layer_comment(c, setup_id, layer_num, position_num) ==
    LET prefix == comment_prefix(c, setup_id)
        tail == U(sL \o Str(layer_num), Str(position_num))
        comment == U(U(prefix, setup_id), tail)
        max_setup_id_len == 31 - Len(U(U(prefix, <<"X">>), tail))
        truncated_setup_id ==
            SubSeq(setup_id, 1, Min(Len(setup_id),
                                    IF max_setup_id_len < 0 THEN 0
                                    ELSE max_setup_id_len))
    IN  IF Len(comment) > 31 THEN U(U(prefix, truncated_setup_id), tail)
        ELSE comment

\* the order_send calls of add_layer(setup_id, is_buy, layer_num)
add_layer(c, setup_id, is_buy, layer_num, q, batch) ==
    LET sl_price == IF is_buy THEN q - c.sl_points * point_value
                    ELSE q + c.sl_points * point_value
        tp_price == IF is_buy
                    THEN q + c.minimum_profit_per_position * point_value
                    ELSE q - c.minimum_profit_per_position * point_value
    IN  [i \in 1..c.positions_per_layer |->
            OpenCall("drawdown",
                     NewPosition(0, IF is_buy THEN 0 ELSE 1, q, sl_price,
                                 tp_price, c.magic_number,
                                 IF c.comment_off THEN <<>>
                                 ELSE layer_comment(c, setup_id, layer_num, i)),
                     batch, TRUE)]

\* min_profit_price of one direction; the quotient is kept to a tenth of a
\* point, rounded down
min_profit_price(c, g, is_buy) ==
    IF is_buy
    THEN (SumOpen(g) + Len(g) * c.minimum_profit_per_position * point_value)
             \div Len(g)
    ELSE (SumOpen(g) - Len(g) * c.minimum_profit_per_position * point_value)
             \div Len(g)

adjust_take_profits(c, g) ==
    LET buy_positions == SelectSeq(g, LAMBDA p : p.type = 0)
        sell_positions == SelectSeq(g, LAMBDA p : p.type = 1)
    IN  [i \in 1..Len(buy_positions) |->
            TpCall("drawdown", buy_positions[i],
                   min_profit_price(c, buy_positions, TRUE))]
        \o [i \in 1..Len(sell_positions) |->
            TpCall("drawdown", sell_positions[i],
                   min_profit_price(c, sell_positions, FALSE))]

\* the pass over one direction as the entry section of run() writes it: the
\* drawdown taken as abs(drawdown / point_value), a layer added when it is
\* above 0 and fewer layers exist than it requires
layer_calls_run_block(c, setup_id, g, is_buy, q, batch) ==
    IF g = <<>> THEN <<>>
    ELSE IF DrawdownAbs(g, is_buy, q) <= 0 THEN <<>>
    ELSE IF Cardinality(existing_layers(g))
              >= Min(CeilDiv(DrawdownAbs(g, is_buy, q),
                             DrawdownDen(g) * c.drawdown_layer_threshold),
                     c.max_layers)
    THEN <<>>
    ELSE add_layer(c, setup_id, is_buy, Cardinality(existing_layers(g)) + 1,
                   q, batch)

\* the body of "for setup_id, setup_positions in position_groups.items()"
\* the pass over one setup without the check of max_drawdown_points
layer_calls_uncapped(c, setup_id, g, is_buy, q, batch) ==
    IF g = <<>> THEN <<>>
    ELSE IF DrawdownNum(g, is_buy, q) <= 0 THEN <<>>
    ELSE IF Cardinality(existing_layers(g)) >= required_layers(c, g, is_buy, q)
    THEN <<>>
    ELSE add_layer(c, setup_id, is_buy, Cardinality(existing_layers(g)) + 1,
                   q, batch)
         \o adjust_take_profits(c, g)

layer_calls(c, setup_id, g, is_buy, q, batch) ==
    IF g = <<>> THEN <<>>
    ELSE IF DrawdownNum(g, is_buy, q) <= 0 THEN <<>>
    ELSE IF DrawdownNum(g, is_buy, q) >= c.max_drawdown_points * DrawdownDen(g)
    THEN <<>>
    ELSE IF Cardinality(existing_layers(g)) >= required_layers(c, g, is_buy, q)
    THEN <<>>
    ELSE add_layer(c, setup_id, is_buy, Cardinality(existing_layers(g)) + 1,
                   q, batch)
         \o adjust_take_profits(c, g)

direction_calls(c, ps, is_buy, q) ==
    LET keys == group_keys(ps, is_buy)
    IN  Flatten([k \in 1..Len(keys) |->
            layer_calls(c, keys[k], setup_positions(ps, is_buy, keys[k]),
                        is_buy, q, IF is_buy THEN k ELSE Len(ps) + 1 + k)])

manage_drawdown_layers(c, ps, q) ==
    direction_calls(c, SelectSeq(ps, LAMBDA p : p.type = 0), TRUE, q)
    \o direction_calls(c, SelectSeq(ps, LAMBDA p : p.type = 1), FALSE, q)

-----------------------------------------------------------------------------
(* TradingBot.manage_positions *)

IsDrawdownTag(p) ==
    /\ p.comment # <<>>
    /\ \/ StartsWith(p.comment, sACE \o <<"_">>)
       \/ StartsWith(p.comment, sDDL \o <<"_">>)

IsTrailingListed(p) ==
    p.comment = <<>> \/ StartsWith(p.comment, sTSL \o <<"_">>)

\* "For positions not handled by specific strategies, make sure they have
\* take profit set": the loop runs over every position of the snapshot
default_tp_calls(c, ps) ==
    Flatten([i \in 1..Len(ps) |->
        IF ps[i].tp = 0
        THEN <<TpCall("default_tp", ps[i],
                      IF IsBuy(ps[i])
                      THEN ps[i].price_open + c.tp_points * point_value
                      ELSE ps[i].price_open - c.tp_points * point_value)>>
        ELSE <<>>])

manage_positions(c, ps, q) ==
    IF ps = <<>> THEN <<>>
    ELSE
      (IF c.strategy_type = "exit_signal_or_max_tp"
       THEN manage_exit_signal_positions(c, ps, q) ELSE <<>>)
      \o (IF SelectSeq(ps, IsProgressiveTag) # <<>> /\ c.enable_progressive
          THEN manage_progressive_positions(c, SelectSeq(ps, IsProgressiveTag), q)
          ELSE <<>>)
      \o (IF SelectSeq(ps, IsTrailingListed) # <<>> /\ c.enable_trailing_sl
          THEN manage_trailing_sl(c, SelectSeq(ps, IsTrailingListed), q)
          ELSE <<>>)
      \o (IF ~c.enable_drawdown_layering THEN <<>>
          ELSE IF c.enable_progressive /\ c.enable_drawdown_layering
          THEN manage_drawdown_layers(c, ps, q)
          ELSE IF SelectSeq(ps, IsDrawdownTag) # <<>>
          THEN manage_drawdown_layers(c, SelectSeq(ps, IsDrawdownTag), q)
          ELSE <<>>)
      \o default_tp_calls(c, ps)


-----------------------------------------------------------------------------
(* The entry section of run(), should_open_trade                            *)

\* self.pine_handler.check_entry_conditions(self.symbol, self.timeframe,
\* num_bars=100): PineScriptHandler.check_entry_conditions(self, df,
\* indicator_name) has no parameter num_bars, the call raises TypeError
check_entry_conditions ==
    "TypeError"

\* should_open_trade: every path returns False, the last one through the
\* except clause that catches the TypeError
should_open_trade(c, ps) ==
    IF c.strategy_type = "exit_signal_or_max_tp" /\ Len(ps) >= c.reentry_count
    THEN FALSE
    ELSE IF check_entry_conditions = "TypeError" THEN FALSE
    ELSE TRUE

\* the trailing branch of the entry section as it would run on a long signal
\* that check_entry_conditions returned and should_open_trade let through:
\* one position is opened unless a position tagged TSL_ is open
entry_calls_signalled(c, ps) ==
    IF c.enable_trailing_sl
         /\ SelectSeq(ps, LAMBDA p : StartsWith(p.comment, sTSL \o <<"_">>))
               = <<>>
    THEN <<OpenCall("entry",
                    NewPosition(0, 0, bid,
                                bid - c.trailing_sl_points * point_value,
                                bid + c.trailing_tp_points * point_value,
                                c.magic_number,
                                IF c.comment_off THEN <<>>
                                ELSE U(U(sTSL, Str(7)), Str(1))),
                    0, FALSE)>>
    ELSE <<>>

\* the calls of run() after manage_positions: the TypeError is raised before
\* any branch of the entry section is reached, and caught per symbol
entry_calls(c, ps) ==
    IF check_entry_conditions = "TypeError" THEN <<>>
    ELSE IF should_open_trade(c, ps) THEN <<>>
    ELSE <<>>

-----------------------------------------------------------------------------
(* Configurations: the settings TradingBot.__init__ receives *)

Bots == {1, 2}

\* the keys of bot_instances: a symbol (/start), f"instance_{instance_id}"
\* (/start_instance)
SymbolKey == "XAUUSD"
InstanceKey == "instance_1"
Keys == {SymbolKey, InstanceKey}

\* the bot a specification has running from the start under key k
registered_as(k) ==
    IF k = SymbolKey THEN 1 ELSE 2

\* /start with the strategy "trailing_stop": enable_trailing_sl only
TrailingSettings ==
    [strategy_type |-> "trailing_stop", magic_number |-> 1,
     enable_progressive |-> FALSE, enable_drawdown_layering |-> FALSE,
     enable_trailing_sl |-> TRUE, comment_off |-> FALSE,
     tp_points |-> 50, sl_points |-> 30, positions_per_setup |-> 3,
     reentry_count |-> 2, drawdown_layer_threshold |-> 10,
     positions_per_layer |-> 2, minimum_profit_per_position |-> 10,
     max_layers |-> 1, max_drawdown_points |-> 30,
     trailing_tp_points |-> 50, trailing_sl_points |-> 30,
     dynamic_checkpoints |-> 5, prop_firm_mode |-> FALSE,
     trade_direction |-> "BOTH", positive_sl_points |-> 20,
     breakeven_trigger_points |-> 20]

NoLocals ==
    [queue |-> <<>>, n |-> 0, opened |-> <<>>, phase |-> "none", wait |-> 0]

\* the bots of started have a thread in run(), the others were never started
InitWith(settings, started) ==
    /\ book = <<>>
    /\ nextTicket = 1
    /\ bid = PriceAt(0)
    /\ conn = "up"
    /\ clock = "weekday"
    /\ cfg = settings
    /\ running = [b \in Bots |-> b \in started]
    /\ pc = [b \in Bots |-> IF b \in started THEN "top" ELSE "stopped"]
    /\ retry_count = [b \in Bots |-> 0]
    /\ error_message = [b \in Bots |-> ""]
    /\ loc = [b \in Bots |-> NoLocals]
    /\ log = <<>>
    /\ lastSent = [t \in Tickets |-> 0]
    /\ bot_instances = [k \in Keys |-> IF registered_as(k) \in started
                                        THEN registered_as(k) ELSE 0]
    /\ sweeps = 0

-----------------------------------------------------------------------------
(* The environment: the market and whoever else trades on the account *)

\* the profit of p at quote q is lower than at the current quote
ProfitFell(p, q) ==
    IF IsBuy(p) THEN q < bid ELSE q > bid

\* the quote moves; the broker closes the positions whose stop-loss or
\* take-profit it reaches
Tick(levels) ==
    \E l \in levels :
        /\ PriceAt(l) # bid
        /\ bid' = PriceAt(l)
        /\ book' = [t \in {u \in DOMAIN book : ~Triggered(book[u], PriceAt(l))}
                      |-> book[t]]
        /\ lastSent' = [t \in Tickets |->
                          IF t \notin DOMAIN book' THEN 0
                          ELSE IF ProfitFell(book[t], PriceAt(l)) THEN 0
                          ELSE lastSent[t]]
        /\ log' = <<>>
        /\ UNCHANGED <<nextTicket, conn, clock, botVars>>

\* a position is opened at the current quote by a person or another program
ExternalOpen(limit, types, comments, magics, sl_distances, tp_distances) ==
    /\ conn # "dead"
    /\ nextTicket <= limit
    /\ \E type \in types, comment \in comments, magic \in magics,
          sl \in sl_distances, tp \in tp_distances :
          book' = [t \in DOMAIN book \cup {nextTicket} |->
                     IF t = nextTicket
                     THEN NewPosition(nextTicket, type, bid,
                            IF sl = 0 THEN 0
                            ELSE IF type = 0 THEN bid - sl * point_value
                            ELSE bid + sl * point_value,
                            IF tp = 0 THEN 0
                            ELSE IF type = 0 THEN bid + tp * point_value
                            ELSE bid - tp * point_value,
                            magic, comment)
                     ELSE book[t]]
    /\ nextTicket' = nextTicket + 1
    /\ log' = <<>>
    /\ UNCHANGED <<bid, conn, clock, botVars, lastSent>>

-----------------------------------------------------------------------------
(* Handlers run in one piece *)

RejectSets(S) ==
    {R \in SUBSET S : Cardinality(R) <= MaxRejects}

\* bot b runs the handler whose calls are q, to its end
RunHandler(b, q) ==
    \E rej \in RejectSets(1..Len(q)) :
        LET st == ExecAll(ExecState(book, nextTicket, q), b, rej, conn)
        IN  /\ book' = st.book
            /\ nextTicket' = st.next
            /\ log' = st.log
            /\ lastSent' = st.sent
            /\ UNCHANGED <<bid, conn, clock, botVars>>

\* TradingBot.manage_positions of bot b
ManagePositions(b) ==
    /\ conn = "up"
    /\ RunHandler(b, manage_positions(cfg[b], positions_get(book), bid))

-----------------------------------------------------------------------------
(* Specification of the trailing checkpoint engine *)

\* quotes, in points from the first one
TrailLevels ==
    {5 * i : i \in (0 - 12)..12}

TSLComments ==
    {U(U(sTSL, Str(7)), Str(1))}

\* positions of the account tagged and priced as the trailing entry of
\* execute_trade_setup does it, or with the stop taken off by hand
ExternalOpenTSL ==
    /\ bid = PriceAt(0)
    /\ ExternalOpen(MaxTrailed, {0, 1}, TSLComments, {1}, {0, 30}, {50, 60})

TickTrail ==
    Tick(TrailLevels)

InitTrail ==
    InitWith([b \in Bots |-> TrailingSettings], Bots)

NextTrail ==
    \/ ExternalOpenTSL
    \/ TickTrail
    \/ ManagePositions(1)

SpecTrail ==
    InitTrail /\ [][NextTrail]_vars

TrailingSends ==
    {i \in 1..Len(log) : /\ log[i].engine = "trailing"
                         /\ log[i].kind = "sl"
                         /\ log[i].res \in {"done", "rejected"}}

\* C1: every stop-loss modify the trailing engine sends is strictly more
\* favourable than the stop the position has at the broker (higher for a long,
\* lower for a short, or the position has no stop), and while the profit of a
\* position does not fall the stops sent for it never move back.
C1_TrailingStopNeverLoosens ==
    \A i \in TrailingSends :
        LET e == log[i]
        IN  IF IsBuy(e.live)
            THEN /\ e.live.sl = 0 \/ e.price > e.live.sl
                 /\ e.prev = 0 \/ e.price >= e.prev
            ELSE /\ e.live.sl = 0 \/ e.price < e.live.sl
                 /\ e.prev = 0 \/ e.price <= e.prev

\* a long position whose stop was already trailed gets a tighter stop after
\* its profit grew
C1_Witness ==
    \E i \in TrailingSends :
        /\ IsBuy(log[i].live)
        /\ log[i].res = "done"
        /\ log[i].live.sl # 0
        /\ log[i].prev # 0
        /\ log[i].price > log[i].prev


-----------------------------------------------------------------------------
(* Specification of position management by two bots on one symbol *)

\* /start with its defaults (strategy exit_signal_or_max_tp,
\* enable_progressive True) and enable_drawdown_layering switched on
LayeringSettings ==
    [TrailingSettings EXCEPT !.strategy_type = "exit_signal_or_max_tp",
                             !.enable_progressive = TRUE,
                             !.enable_drawdown_layering = TRUE,
                             !.enable_trailing_sl = FALSE,
                             !.tp_points = 20]

\* /start_instance with the strategy exit_signal_or_max_tp; it passes no
\* magic_number and the instance gets the default of __init__
ExitInstanceSettings ==
    [TrailingSettings EXCEPT !.strategy_type = "exit_signal_or_max_tp",
                             !.enable_trailing_sl = FALSE,
                             !.tp_points = 10,
                             !.magic_number = 234000]

ManageLevels ==
    {0 - 20, 0}

\* a position opened by hand: no comment, no magic number, no stop, no target
ExternalOpenManual ==
    /\ bid = PriceAt(0)
    /\ ExternalOpen(MaxExternal, {0, 1}, {<<>>}, {0}, {0}, {0})

TickManage ==
    Tick(ManageLevels)

InitManage ==
    InitWith([b \in Bots |-> IF b = 1 THEN LayeringSettings
                             ELSE ExitInstanceSettings], Bots)

NextManage ==
    \/ ExternalOpenManual
    \/ TickManage
    \/ \E b \in Bots : ManagePositions(b)

SpecManage ==
    InitManage /\ [][NextManage]_vars


\* the orders of the latest handler run that reached the broker
Sent ==
    {i \in 1..Len(log) : log[i].res \in {"done", "rejected"}}

\* the orders that changed a position that was open already
Applied ==
    {i \in 1..Len(log) : log[i].res = "done" /\ log[i].kind # "open"}

\* the open positions that add_layer of bot b tagged as layer positions of the
\* setup
LayerPositions(b, setup_id) ==
    {t \in DOMAIN book :
        \E n \in 1..(cfg[b].max_layers + 1), i \in 1..cfg[b].positions_per_layer :
            book[t].comment = layer_comment(cfg[b], setup_id, n, i)}

\* C2: a setup never holds more layer positions than max_layers layers of
\* positions_per_layer positions: once max_layers layers exist no further layer
\* position is opened for it.
C2_LayerCap ==
    \A b \in Bots, is_buy \in BOOLEAN :
        Cardinality(LayerPositions(b, default_setup_id(is_buy)))
            <= cfg[b].max_layers * cfg[b].positions_per_layer

\* C3: a bot of the exit_signal_or_max_tp strategy sends no open order while
\* the symbol holds reentry_count or more open positions.
C3_ReentryBound ==
    \A i \in Sent :
        (log[i].kind = "open"
         /\ cfg[log[i].bot].strategy_type = "exit_signal_or_max_tp")
            => log[i].open_count < cfg[log[i].bot].reentry_count

\* C5: when an open of a new layer is rejected, no leg of that layer that was
\* opened before is still open once add_layer has returned.
C5_NoPartialLayer ==
    \A i, j \in 1..Len(log) :
        (/\ log[i].engine = "drawdown" /\ log[i].kind = "open"
         /\ log[i].res = "rejected"
         /\ log[j].engine = "drawdown" /\ log[j].kind = "open"
         /\ log[j].res = "done"
         /\ log[j].batch = log[i].batch)
            => log[j].ticket \notin DOMAIN book

\* the comment parses as one of the tags the bot writes
IsBotTag(comment) ==
    /\ comment # <<>>
    /\ Len(Split(comment)) >= 2
    /\ Split(comment)[1] \in {sACE, sPROG, sHYBRID, sTSL, sDDL, sEXIT}

\* C6: the bot closes no position whose comment is empty or is not one of its
\* tags, and modifies neither its stop-loss nor its take-profit.
C6_UnmanagedUntouched ==
    \A i \in Applied : IsBotTag(log[i].live.comment)

\* C7: a bot closes or modifies no position that carries the magic number of
\* another bot running on the symbol.
C7_InstanceIsolation ==
    \A i \in Applied :
        \A other \in Bots \ {log[i].bot} :
            cfg[other].magic_number # cfg[log[i].bot].magic_number
                => log[i].live.magic # cfg[other].magic_number

StrategyEngines ==
    {"exit", "progressive", "trailing", "drawdown"}

\* C8: within one run of manage_positions the close and modify orders sent for
\* one position all come from the same strategy engine.
C8_EnginesExclusive ==
    \A i, j \in Sent :
        (/\ log[i].kind # "open" /\ log[j].kind # "open"
         /\ log[i].engine \in StrategyEngines
         /\ log[j].engine \in StrategyEngines
         /\ log[i].ticket = log[j].ticket)
            => log[i].engine = log[j].engine

-----------------------------------------------------------------------------
(* Specification of the setup entry of trading_bot.py *)

\* execute_trade_setup(symbol, trade_type, setup_id): the three open_trade
\* calls; sl and tp are get_stop_loss and get_take_profit at the given ATR
ace_setup_calls(is_buy, q, setup_id, atr) ==
    [i \in 1..3 |->
        OpenCall("setup",
                 NewPosition(0, IF is_buy THEN 0 ELSE 1, q,
                             IF is_buy THEN q - 2 * atr * point_value
                             ELSE q + 2 * atr * point_value,
                             IF is_buy THEN q + 3 * atr * point_value
                             ELSE q - 3 * atr * point_value,
                             234000, U(U(sACE, Str(setup_id)), Str(i))),
                 1, TRUE)]

\* run_trading_bot finds an entry condition and calls execute_trade_setup;
\* the process of trading_bot.py is bot 0
ExecuteTradeSetup ==
    /\ conn = "up"
    /\ \E is_buy \in BOOLEAN :
          RunHandler(0, ace_setup_calls(is_buy, bid, nextTicket, 10))

SetupLevels ==
    {0 - 20, 0, 30}

TickSetup ==
    Tick(SetupLevels)

InitSetup ==
    InitWith([b \in Bots |-> TrailingSettings], Bots)

NextSetup ==
    \/ ExecuteTradeSetup
    \/ TickSetup

SpecSetup ==
    InitSetup /\ [][NextSetup]_vars

\* the positions the latest execute_trade_setup opened
SetupOpened ==
    {log[i].ticket : i \in {j \in 1..Len(log) :
        log[j].engine = "setup" /\ log[j].kind = "open" /\ log[j].res = "done"}}

\* C4: once execute_trade_setup has returned, either all three positions of
\* the setup are open or none of those it opened is.
C4_SetupAllOrNothing ==
    Cardinality(SetupOpened \cap DOMAIN book) \in {0, 3}

-----------------------------------------------------------------------------
(* TradingBot.run: the thread of a bot, one broker call at a time, with the *)
(* connection and the stop request changing under it                        *)

max_retries == 5
\* seconds
reconnect_wait == 10
cycle_wait == 5

reconnect_failed ==
    "Failed to reconnect to MT5 after 5 attempts. Stopping bot."

\* one of the messages initialize_mt5 sets before it returns False
initialize_failed ==
    "MT5 initialization failed"

retries_late(n) ==
    n > max_retries

\* if retry_count >= max_retries
retries_exhausted(n) ==
    n >= max_retries

\* while self.running:
LoopTop(b) ==
    /\ pc[b] = "top"
    /\ pc' = [pc EXCEPT ![b] = IF running[b] THEN "verify" ELSE "stopped"]
    /\ UNCHANGED <<brokerVars, clock, appVars, sweeps, running, retry_count,
                   error_message, loc, log, lastSent>>

\* mt5.terminal_info() answers
ConnectionVerified(b) ==
    /\ pc[b] = "verify"
    /\ conn = "up"
    /\ retry_count' = [retry_count EXCEPT ![b] = 0]
    /\ pc' = [pc EXCEPT ![b] = "weekend"]
    /\ UNCHANGED <<brokerVars, clock, appVars, sweeps, running, error_message, loc, log,
                   lastSent>>

\* a loop that goes on with the cycle after a reconnect that failed
ReconnectGoesOn(b) ==
    /\ pc[b] = "verify"
    /\ conn # "up"
    /\ \E ok \in {x \in BOOLEAN : conn = "dead" => ~x} :
          IF ok
          THEN /\ conn' = "up"
               /\ retry_count' = [retry_count EXCEPT ![b] = 0]
               /\ pc' = [pc EXCEPT ![b] = "weekend"]
               /\ UNCHANGED <<running, error_message, loc>>
          ELSE /\ conn' = conn
               /\ retry_count' = [retry_count EXCEPT ![b] = @ + 1]
               /\ IF retries_exhausted(retry_count[b] + 1)
                  THEN /\ error_message' = [error_message EXCEPT
                                               ![b] = reconnect_failed]
                       /\ running' = [running EXCEPT ![b] = FALSE]
                       /\ pc' = [pc EXCEPT ![b] = "stopped"]
                       /\ loc' = loc
                  ELSE /\ error_message' = [error_message EXCEPT
                                               ![b] = initialize_failed]
                       /\ running' = running
                       /\ pc' = [pc EXCEPT ![b] = "weekend"]
                       /\ loc' = [loc EXCEPT ![b].wait = reconnect_wait]
    /\ UNCHANGED <<book, nextTicket, bid, clock, appVars, sweeps, log, lastSent>>

\* mt5.terminal_info() is None: self.initialize_mt5(), and the count of the
\* attempts that failed
Reconnect(b) ==
    /\ pc[b] = "verify"
    /\ conn # "up"
    /\ \E ok \in {x \in BOOLEAN : conn = "dead" => ~x} :
          IF ok
          THEN /\ conn' = "up"
               /\ retry_count' = [retry_count EXCEPT ![b] = 0]
               /\ pc' = [pc EXCEPT ![b] = "weekend"]
               /\ UNCHANGED <<running, error_message, loc>>
          ELSE /\ conn' = conn
               /\ retry_count' = [retry_count EXCEPT ![b] = @ + 1]
               /\ IF retries_exhausted(retry_count[b] + 1)
                  THEN /\ error_message' = [error_message EXCEPT
                                               ![b] = reconnect_failed]
                       /\ running' = [running EXCEPT ![b] = FALSE]
                       /\ pc' = [pc EXCEPT ![b] = "stopped"]
                       /\ loc' = loc
                  ELSE /\ error_message' = [error_message EXCEPT
                                               ![b] = initialize_failed]
                       /\ running' = running
                       /\ pc' = [pc EXCEPT ![b] = "sleep"]
                       /\ loc' = [loc EXCEPT ![b].wait = reconnect_wait]
    /\ UNCHANGED <<book, nextTicket, bid, clock, appVars, sweeps, log, lastSent>>

\* time.sleep(10) before continue, time.sleep(5) at the end of a cycle
Sleep(b) ==
    /\ pc[b] = "sleep"
    /\ pc' = [pc EXCEPT ![b] = "top"]
    /\ UNCHANGED <<brokerVars, clock, appVars, sweeps, running, retry_count,
                   error_message, loc, log, lastSent>>

weekend_calls_not_losing(ps, q) ==
    Flatten([i \in 1..Len(ps) |->
        IF profit_points(ps[i], q) >= 0
        THEN <<CloseCall("weekend", ps[i])>> ELSE <<>>])

\* check_weekend_closing: the closes of the positions in profit
weekend_calls(ps, q) ==
    Flatten([i \in 1..Len(ps) |->
        IF profit_points(ps[i], q) > 0
        THEN <<CloseCall("weekend", ps[i])>> ELSE <<>>])

\* self.check_weekend_closing() reads the clock and the positions
WeekendClosing(b) ==
    /\ pc[b] = "weekend"
    /\ pc' = [pc EXCEPT ![b] = "batch"]
    /\ loc' = [loc EXCEPT ![b].queue =
                               IF clock = "saturday_midnight" /\ conn = "up"
                               THEN weekend_calls(positions_get(book), bid)
                               ELSE <<>>,
                          ![b].n = 0, ![b].opened = <<>>,
                          ![b].phase = "weekend"]
    /\ log' = <<>>
    /\ sweeps' = IF /\ clock = "saturday_midnight"
                    /\ conn = "up"
                    /\ weekend_calls(positions_get(book), bid) # <<>>
                 THEN Min(sweeps + 1, MaxSweeps) ELSE sweeps
    /\ UNCHANGED <<brokerVars, clock, appVars, running, retry_count,
                   error_message, lastSent>>

\* the thread makes the next broker call of the handler it is in; the broker
\* accepts the orders that reach it
BatchStep(b) ==
    /\ pc[b] = "batch"
    /\ loc[b].queue # <<>>
    /\ LET st == ExecOne([book |-> book, next |-> nextTicket, log |-> log,
                          n |-> loc[b].n, queue |-> loc[b].queue,
                          opened |-> loc[b].opened, sent |-> lastSent],
                         b, {}, conn)
       IN  /\ book' = st.book
           /\ nextTicket' = st.next
           /\ log' = st.log
           /\ lastSent' = st.sent
           /\ loc' = [loc EXCEPT ![b].queue = st.queue, ![b].n = st.n,
                                 ![b].opened = st.opened]
    /\ UNCHANGED <<bid, conn, clock, appVars, sweeps, running, pc, retry_count,
                   error_message>>

\* df = self.get_historical_data(self.timeframe): a frame, or None when
\* copy_rates_from_pos has nothing to give
get_historical_data ==
    IF conn = "up" THEN {"frame", "None"} ELSE {"None"}

\* a handler has returned: after check_weekend_closing comes
\* manage_positions, then get_historical_data and, unless df is None, the
\* entry section, then time.sleep(5)
BatchEnd(b) ==
    /\ pc[b] = "batch"
    /\ loc[b].queue = <<>>
    /\ \E next \in {IF conn # "up" THEN <<>>
                     ELSE IF loc[b].phase = "weekend"
                     THEN manage_positions(cfg[b], positions_get(book), bid)
                     ELSE entry_calls(cfg[b], positions_get(book))} :
          IF loc[b].phase = "weekend"
          THEN /\ loc' = [loc EXCEPT ![b].queue = next, ![b].n = 0,
                                     ![b].opened = <<>>, ![b].phase = "manage"]
               /\ log' = <<>>
               /\ pc' = pc
          ELSE IF loc[b].phase = "manage"
          THEN /\ \E df \in get_historical_data :
                     loc' = [loc EXCEPT ![b].queue = IF df = "None" THEN <<>>
                                                     ELSE next,
                                        ![b].n = 0, ![b].opened = <<>>,
                                        ![b].phase = IF df = "None"
                                                     THEN "no_data"
                                                     ELSE "entry"]
               /\ log' = log
               /\ pc' = pc
          ELSE /\ loc' = [loc EXCEPT ![b] = [NoLocals EXCEPT !.wait = cycle_wait]]
               /\ log' = <<>>
               /\ pc' = [pc EXCEPT ![b] = "sleep"]
    /\ UNCHANGED <<brokerVars, clock, appVars, sweeps, running, retry_count,
                   error_message, lastSent>>

\* the steps of the thread of bot b
Thread(b) ==
    \/ LoopTop(b)
    \/ ConnectionVerified(b)
    \/ Reconnect(b)
    \/ Sleep(b)
    \/ WeekendClosing(b)
    \/ BatchStep(b)
    \/ BatchEnd(b)

\* the terminal loses its connection; an initialize can bring it back
ConnectionLost ==
    /\ \A b \in Bots : pc[b] # "batch"
    /\ conn = "up"
    /\ conn' = "down"
    /\ UNCHANGED <<book, nextTicket, bid, clock, botVars, log, lastSent>>

\* the terminal is gone for good
TerminalDies ==
    /\ \A b \in Bots : pc[b] # "batch"
    /\ conn # "dead"
    /\ conn' = "dead"
    /\ UNCHANGED <<book, nextTicket, bid, clock, botVars, log, lastSent>>

\* POST /stop, and POST /stop_instance of the last instance: running = False
\* for the bots, then at once mt5.shutdown(); no thread is joined
StopBot ==
    /\ \E b \in Bots : running[b]
    /\ running' = [b \in Bots |-> FALSE]
    /\ conn' = IF conn = "dead" THEN "dead" ELSE "shutdown"
    /\ UNCHANGED <<book, nextTicket, bid, clock, appVars, sweeps, pc, retry_count,
                   error_message, loc, log, lastSent>>

\* the market and the clock are looked at between two cycles of the bots
BetweenCycles ==
    \A b \in Bots : pc[b] \in {"sleep", "stopped"} /\ running[b] = (pc[b] = "sleep")

\* Saturday 00:00 Philippine time comes, and 00:05 passes
ClockTick ==
    /\ BetweenCycles
    /\ clock' = IF clock = "weekday" THEN "saturday_midnight" ELSE "weekday"
    /\ sweeps' = 0
    /\ UNCHANGED <<brokerVars, appVars, running, pc, retry_count,
                   error_message, loc, log, lastSent>>

RunLevels ==
    {0 - 20, 0}

TickRun ==
    /\ BetweenCycles
    /\ Tick(RunLevels)

ExternalOpenRun ==
    /\ BetweenCycles
    /\ ExternalOpenManual

InitRun ==
    InitWith([b \in Bots |-> LayeringSettings], {1})

NextRun ==
    \/ ExternalOpenRun
    \/ TickRun
    \/ ClockTick
    \/ ConnectionLost
    \/ TerminalDies
    \/ StopBot
    \/ Thread(1)

\* the steps of the thread of bot b but the return of a handler
ThreadStep(b) ==
    \/ LoopTop(b)
    \/ ConnectionVerified(b)
    \/ Reconnect(b)
    \/ Sleep(b)
    \/ WeekendClosing(b)
    \/ BatchStep(b)

\* weak fairness of BatchEnd(1), written out: BatchEnd(1) has a step to take
\* exactly while the thread is in a handler whose calls are all made
BatchEndRuns ==
    \/ []<>(~(pc[1] = "batch" /\ loc[1].queue = <<>>))
    \/ []<><<BatchEnd(1)>>_vars

\* the thread of a started bot is scheduled again and again until its loop
\* has ended
ThreadRuns ==
    WF_vars(ThreadStep(1)) /\ BatchEndRuns

SpecRun ==
    InitRun /\ [][NextRun]_vars /\ ThreadRuns

C9_Counts ==
    \A b \in Bots :
        /\ retry_count[b] <= max_retries
        /\ retry_count[b] >= max_retries
              => /\ ~running[b]
                 /\ pc[b] = "stopped"
                 /\ error_message[b] = reconnect_failed
        /\ (retry_count[b] > 0 /\ retry_count[b] < max_retries)
              => /\ pc[b] \in {"sleep", "top", "verify", "stopped"}
                 /\ loc[b].wait = reconnect_wait
                 /\ error_message[b] = initialize_failed

\* C9: every failed reconnect is followed by a wait of 10 seconds before the
\* next attempt; the fifth failed attempt in a row sets running to False,
\* records the error message and ends the loop; and once the connection is
\* lost for good the loop of a started bot ends.
C9_BoundedReconnect ==
    /\ []C9_Counts
    /\ \A b \in {1} : (conn = "dead") ~> (pc[b] = "stopped")

\* the loop has ended on the fifth failed attempt
C9_Witness ==
    /\ pc[1] = "stopped"
    /\ retry_count[1] = max_retries
    /\ error_message[1] = reconnect_failed
    /\ ~running[1]

\* C10: a stop request leaves no batch half applied: when an open of a batch
\* fails on the connection that the stop request shut down, no position the
\* same batch opened before is left open.
C10_StopLeavesNoHalfBatch ==
    \A i, j \in 1..Len(log) :
        (/\ log[i].kind = "open" /\ log[i].res = "done"
         /\ log[j].kind = "open" /\ log[j].res = "error"
         /\ log[j].link = "shutdown"
         /\ log[j].engine = log[i].engine
         /\ log[j].batch = log[i].batch)
            => log[i].ticket \notin DOMAIN book

-----------------------------------------------------------------------------
(* Two bot threads on the one MT5 connection of the process.  A broker call *)
(* is entered and returns; app.py holds no lock around the mt5 calls.        *)

\* the thread enters the next broker call of its handler
CallBegin(b) ==
    /\ pc[b] = "batch"
    /\ loc[b].queue # <<>>
    /\ pc' = [pc EXCEPT ![b] = "in_call"]
    /\ UNCHANGED <<brokerVars, clock, appVars, sweeps, running, retry_count,
                   error_message, loc, log, lastSent>>

\* the broker call returns
CallReturn(b) ==
    /\ pc[b] = "in_call"
    /\ LET st == ExecOne([book |-> book, next |-> nextTicket, log |-> log,
                          n |-> loc[b].n, queue |-> loc[b].queue,
                          opened |-> loc[b].opened, sent |-> lastSent],
                         b, {}, conn)
       IN  /\ book' = st.book
           /\ nextTicket' = st.next
           /\ log' = st.log
           /\ lastSent' = st.sent
           /\ loc' = [loc EXCEPT ![b].queue = st.queue, ![b].n = st.n,
                                 ![b].opened = st.opened]
    /\ pc' = [pc EXCEPT ![b] = "batch"]
    /\ UNCHANGED <<bid, conn, clock, appVars, sweeps, running, retry_count,
                   error_message>>

\* the steps of the thread of bot b while the connection stays up
ThreadCalls(b) ==
    \/ LoopTop(b)
    \/ ConnectionVerified(b)
    \/ Sleep(b)
    \/ WeekendClosing(b)
    \/ CallBegin(b)
    \/ CallReturn(b)
    \/ BatchEnd(b)

InitThreads ==
    InitWith([b \in Bots |-> IF b = 1 THEN LayeringSettings
                             ELSE ExitInstanceSettings], Bots)

NextThreads ==
    \/ ExternalOpenRun
    \/ TickRun
    \/ \E b \in Bots : ThreadCalls(b)

SpecThreads ==
    InitThreads /\ [][NextThreads]_vars

\* the threads that are inside a broker call
InFlight ==
    {b \in Bots : pc[b] = "in_call"}

\* C11: at most one broker call is in flight at any time.
C11_OneCallInFlight ==
    Cardinality(InFlight) <= 1

-----------------------------------------------------------------------------
(* The registry of bots: POST /start, /start_instance, /stop and          *)
(* /stop_instance, and the threads they start, on an account without       *)
(* positions.                                                              *)

\* a TradingBot object no thread runs and the registry does not hold
Unused(b) ==
    /\ pc[b] = "stopped"
    /\ \A k \in Keys : bot_instances[k] # b

\* TradingBot(settings): __init__ sets self.running = True
TradingBot(b, settings, started) ==
    /\ cfg' = [cfg EXCEPT ![b] = settings]
    /\ running' = [running EXCEPT ![b] = TRUE]
    /\ pc' = [pc EXCEPT ![b] = IF started THEN "top" ELSE "stopped"]
    /\ retry_count' = [retry_count EXCEPT ![b] = 0]
    /\ error_message' = [error_message EXCEPT
                            ![b] = IF started THEN "" ELSE initialize_failed]
    /\ loc' = [loc EXCEPT ![b] = NoLocals]

\* POST /start for one symbol: skipped when the bot registered under the
\* symbol says it is running; the thread is started when initialize_mt5
\* succeeded
start_bot ==
    /\ ~(bot_instances[SymbolKey] # 0 /\ running[bot_instances[SymbolKey]])
    /\ \E b \in {x \in Bots : Unused(x)} :
       \E ok \in {x \in BOOLEAN : conn = "dead" => ~x} :
          /\ bot_instances' = [bot_instances EXCEPT ![SymbolKey] = b]
          /\ TradingBot(b, LayeringSettings, ok)
          /\ conn' = IF ok THEN "up" ELSE conn
    /\ UNCHANGED <<book, nextTicket, bid, clock, log, lastSent, sweeps>>

\* POST /start_instance: the entry of the instance is assigned, whatever it
\* held
start_instance ==
    /\ \E b \in {x \in Bots : Unused(x)} :
       \E ok \in {x \in BOOLEAN : conn = "dead" => ~x} :
          /\ bot_instances' = [bot_instances EXCEPT ![InstanceKey] = b]
          /\ TradingBot(b, ExitInstanceSettings, ok)
          /\ conn' = IF ok THEN "up" ELSE conn
    /\ UNCHANGED <<book, nextTicket, bid, clock, log, lastSent, sweeps>>

\* mt5.shutdown()
shutdown ==
    IF conn = "dead" THEN "dead" ELSE "shutdown"

\* POST /stop with the symbol: bot_threads holds threads of symbols only, so
\* it is empty after the del
stop_bot_symbol ==
    /\ bot_instances[SymbolKey] # 0
    /\ running' = [running EXCEPT ![bot_instances[SymbolKey]] = FALSE]
    /\ conn' = shutdown
    /\ UNCHANGED <<book, nextTicket, bid, clock, appVars, pc, retry_count,
                   error_message, loc, log, lastSent, sweeps>>

\* POST /stop without a symbol: every registered bot, then mt5.shutdown()
stop_bot_all ==
    /\ \E k \in Keys : bot_instances[k] # 0
    /\ running' = [b \in Bots |->
                      IF \E k \in Keys : bot_instances[k] = b
                      THEN FALSE ELSE running[b]]
    /\ conn' = shutdown
    /\ UNCHANGED <<book, nextTicket, bid, clock, appVars, pc, retry_count,
                   error_message, loc, log, lastSent, sweeps>>

\* POST /stop_instance: running = False, the entry is popped, mt5.shutdown()
\* when the registry is empty
stop_instance ==
    /\ bot_instances[InstanceKey] # 0
    /\ running' = [running EXCEPT ![bot_instances[InstanceKey]] = FALSE]
    /\ bot_instances' = [bot_instances EXCEPT ![InstanceKey] = 0]
    /\ conn' = IF bot_instances[SymbolKey] = 0 THEN shutdown ELSE conn
    /\ UNCHANGED <<book, nextTicket, bid, clock, cfg, pc, retry_count,
                   error_message, loc, log, lastSent, sweeps>>

\* the steps of a thread when there is no position to act on
ThreadIdle(b) ==
    \/ LoopTop(b)
    \/ ConnectionVerified(b)
    \/ Reconnect(b)
    \/ Sleep(b)
    \/ WeekendClosing(b)
    \/ BatchEnd(b)

InitRegistry ==
    InitWith([b \in Bots |-> LayeringSettings], {})

NextRegistry ==
    \/ start_bot
    \/ start_instance
    \/ stop_bot_symbol
    \/ stop_bot_all
    \/ stop_instance
    \/ \E b \in Bots : ThreadIdle(b)

SpecRegistry ==
    InitRegistry /\ [][NextRegistry]_vars

\* the bots whose loop is live and has not been told to stop
RunningLoops ==
    {b \in Bots : pc[b] # "stopped" /\ running[b]}

\* C12: every running loop is the bot registered in bot_instances under its
\* key, so that a stop request reaches it (and so at most one runs per key).
C12_RunningLoopsRegistered ==
    \A b \in RunningLoops : \E k \in Keys : bot_instances[k] = b

-----------------------------------------------------------------------------
(* The weekend: the block without new positions and the Saturday sweep,    *)
(* in the run loop of SpecRun                                              *)

\* is_weekend_trading_hours: Saturday, Sunday, Monday before 08:00; the
\* Saturday-midnight window lies inside it
is_weekend_trading_hours ==
    clock = "saturday_midnight"

\* the orders of the running handler that opened a position
OpensSent ==
    {i \in DOMAIN log : log[i].kind = "open" /\ log[i].res = "done"}

\* C13: no order that opens a position (setup, re-entry or drawdown layer) is
\* sent while the time is inside the weekend block.
C13_NoOpenInWeekendBlock ==
    is_weekend_trading_hours => OpensSent = {}

\* check_weekend_closing of bot 1 is under way inside the window
Sweeping ==
    /\ pc[1] = "batch"
    /\ loc[1].phase = "weekend"
    /\ clock = "saturday_midnight"
    /\ conn = "up"

\* the tickets check_weekend_closing has sent a close for, or is about to
SweepTickets ==
    {log[i].ticket : i \in {j \in DOMAIN log : log[j].engine = "weekend"}}
        \cup {loc[1].queue[i].ticket : i \in DOMAIN loc[1].queue}

\* C14: inside the Saturday-midnight window check_weekend_closing closes every
\* open position with profit > 0 and none with profit <= 0.
C14_SweepClosesProfitOnly ==
    Sweeping =>
        /\ \A t \in DOMAIN book :
              profit_points(book[t], bid) > 0 <=> t \in SweepTickets
        /\ \A i \in DOMAIN log :
              /\ log[i].kind = "close" /\ log[i].engine = "weekend"
              /\ profit_points(log[i].snap, bid) > 0
              /\ log[i].res = "done"
        /\ loc[1].queue = <<>> =>
              \A t \in DOMAIN book : profit_points(book[t], bid) <= 0

\* the sweep has closed a position in profit and kept one that is not
C14_Witness ==
    /\ Sweeping
    /\ loc[1].queue = <<>>
    /\ \E i \in DOMAIN log : log[i].res = "done" /\ log[i].ticket \notin DOMAIN book
    /\ \E t \in DOMAIN book : profit_points(book[t], bid) <= 0

\* C15: within one Saturday-midnight window the sweep is performed at most
\* once: no later cycle of the same window sends weekend closes again.
C15_SweepOncePerWindow ==
    sweeps <= 1

-----------------------------------------------------------------------------
(* The tags: the comments add_layer writes, and what the management code   *)
(* reads back from a comment                                               *)

DigitVal(ch) ==
    CASE ch = "0" -> 0 [] ch = "1" -> 1 [] ch = "2" -> 2 [] ch = "3" -> 3
      [] ch = "4" -> 4 [] ch = "5" -> 5 [] ch = "6" -> 6 [] ch = "7" -> 7
      [] ch = "8" -> 8 [] OTHER -> 9

\* int(s) does not raise ValueError
IsInt(s) ==
    /\ s # <<>>
    /\ \A i \in 1..Len(s) :
          s[i] \in {"0", "1", "2", "3", "4", "5", "6", "7", "8", "9"}

RECURSIVE IntOf(_)
\* int(s)
IntOf(s) ==
    IF s = <<>> THEN 0
    ELSE 10 * IntOf(SubSeq(s, 1, Len(s) - 1)) + DigitVal(s[Len(s)])

\* setup_id = pos.comment.split('_')[1]
parsed_setup_id(comment) ==
    IF Len(Split(comment)) >= 2 THEN Split(comment)[2] ELSE <<>>

\* pos.position_number of manage_progressive_positions: int(pos_parts[2]), 0
\* on ValueError and for a comment of fewer than three parts
parsed_position_number(comment) ==
    LET pos_parts == Split(comment)
    IN  IF Len(pos_parts) >= 3 /\ IsInt(pos_parts[3])
        THEN IntOf(pos_parts[3]) ELSE 0

\* the layer manage_drawdown_layers counts for the comment, <<>> when it
\* counts none
parsed_layer(comment) ==
    LET parts == Split(comment)
    IN  IF Len(parts) > 3 /\ StartsWith(parts[4], sL) THEN parts[4] ELSE <<>>

\* setup_id = int(time.time())
sEpoch == <<"1", "7", "0", "0", "0", "0", "0", "0", "0", "0">>

TagSetupIds ==
    {sEpoch, default_setup_id(TRUE), default_setup_id(FALSE)}

TagLayers ==
    {1, MaxLayerNum}

\* drawdown layering with and without the progressive engine
TagSettings ==
    {[LayeringSettings EXCEPT !.positions_per_layer = TagPositions],
     [LayeringSettings EXCEPT !.positions_per_layer = TagPositions,
                              !.enable_progressive = FALSE]}

\* the locals of add_layer(setup_id, is_buy, layer_num)
AddLayerLocals(setup_id, layer_num, position_num, comment) ==
    [queue |-> <<>>, n |-> 0, opened |-> <<>>, phase |-> "add_layer",
     wait |-> 0, setup_id |-> setup_id, layer_num |-> layer_num,
     position_num |-> position_num, comment |-> comment]

\* add_layer is called
AddLayerEnter ==
    /\ loc[1].phase = "none"
    /\ \E setup_id \in TagSetupIds, layer_num \in TagLayers :
          loc' = [loc EXCEPT ![1] = AddLayerLocals(setup_id, layer_num, 0, <<>>)]
    /\ UNCHANGED <<brokerVars, clock, appVars, sweeps, running, pc, retry_count,
                   error_message, log, lastSent>>

\* for i in range(self.positions_per_layer): the comment of the next order
AddLayerComment ==
    /\ loc[1].phase = "add_layer"
    /\ loc[1].position_num < cfg[1].positions_per_layer
    /\ loc' = [loc EXCEPT ![1] =
                  AddLayerLocals(loc[1].setup_id, loc[1].layer_num,
                                 loc[1].position_num + 1,
                                 layer_comment(cfg[1], loc[1].setup_id,
                                               loc[1].layer_num,
                                               loc[1].position_num + 1))]
    /\ UNCHANGED <<brokerVars, clock, appVars, sweeps, running, pc, retry_count,
                   error_message, log, lastSent>>

\* add_layer returns
AddLayerReturn ==
    /\ loc[1].phase = "add_layer"
    /\ loc[1].position_num = cfg[1].positions_per_layer
    /\ loc' = [loc EXCEPT ![1] = NoLocals]
    /\ UNCHANGED <<brokerVars, clock, appVars, sweeps, running, pc, retry_count,
                   error_message, log, lastSent>>

InitTags ==
    \E c \in TagSettings : InitWith([b \in Bots |-> c], {})

NextTags ==
    \/ AddLayerEnter
    \/ AddLayerComment
    \/ AddLayerReturn

SpecTags ==
    InitTags /\ [][NextTags]_vars

\* add_layer has built a comment
Encoded ==
    loc[1].phase = "add_layer" /\ loc[1].position_num > 0

\* f"L{layer_num}_{position_num}"
TagTail(layer_num, position_num) ==
    U(sL \o Str(layer_num), Str(position_num))

\* the comment of (layer_num, position_num) for the setup was cut
Truncated(layer_num, position_num) ==
    Len(U(U(comment_prefix(cfg[1], loc[1].setup_id), loc[1].setup_id),
          TagTail(layer_num, position_num))) > 31

\* the setup id the tag of (layer_num, position_num) carries: what stands
\* between the prefix and the tail
CarriedSetupId(layer_num, position_num) ==
    LET comment == layer_comment(cfg[1], loc[1].setup_id, layer_num,
                                 position_num)
        prefix == comment_prefix(cfg[1], loc[1].setup_id)
    IN  SubSeq(comment, Len(prefix) + 2,
               Len(comment) - Len(TagTail(layer_num, position_num)) - 1)

\* C16: a tag within the length limit reads back as it was written: the
\* parsers recover the setup id, the position index and the layer.
C16_TagRoundTrip ==
    (Encoded /\ ~Truncated(loc[1].layer_num, loc[1].position_num)) =>
        /\ parsed_setup_id(loc[1].comment) = loc[1].setup_id
        /\ parsed_position_number(loc[1].comment) = loc[1].position_num
        /\ parsed_layer(loc[1].comment) = sL \o Str(loc[1].layer_num)

\* C17: every comment of add_layer has at most 31 characters, and when the
\* setup id of a tag is cut, every tag of the setup (any layer number, any
\* position number) carries the same cut setup id.
C17_TruncationConsistent ==
    Encoded =>
        /\ Len(loc[1].comment) <= 31
        /\ Truncated(loc[1].layer_num, loc[1].position_num) =>
              \A l \in TagLayers, p \in 1..cfg[1].positions_per_layer :
                  CarriedSetupId(l, p) =
                      CarriedSetupId(loc[1].layer_num, loc[1].position_num)

-----------------------------------------------------------------------------
(* Grouping: position_groups as the three groupers build it, a dict kept   *)
(* as the sequence of its items [key, members] in insertion order          *)

\* if k not in position_groups: position_groups[k] = []
\* position_groups[k].append(pos)
dict_append(d, k, pos) ==
    IF \E i \in 1..Len(d) : d[i].key = k
    THEN [i \in 1..Len(d) |->
             IF d[i].key = k
             THEN [key |-> k, members |-> Append(d[i].members, pos)]
             ELSE d[i]]
    ELSE Append(d, [key |-> k, members |-> <<pos>>])

leave_in_default(members, pos) ==
    members

\* if pos in position_groups[default_setup_id]:
\*     position_groups[default_setup_id].remove(pos)
remove_from_default(members, pos) ==
    IF \E i \in 1..Len(members) : members[i] = pos
    THEN LET i == CHOOSE i \in 1..Len(members) :
                      /\ members[i] = pos
                      /\ \A j \in 1..(i - 1) : members[j] # pos
         IN  SubSeq(members, 1, i - 1) \o SubSeq(members, i + 1, Len(members))
    ELSE members

RECURSIVE drawdown_position_groups(_, _, _)
\* manage_drawdown_layers, "for pos in positions_list": d starts as the dict
\* with the empty default group, its first item
drawdown_position_groups(ps, is_buy, d) ==
    IF ps = <<>> THEN d
    ELSE LET pos == Head(ps)
             d1 == dict_append(d, default_setup_id(is_buy), pos)
             d2 == IF in_setup_group(pos)
                   THEN LET d3 == dict_append(d1, Split(pos.comment)[2], pos)
                        IN  [i \in 1..Len(d3) |->
                                IF i = 1
                                THEN [d3[i] EXCEPT !.members =
                                         remove_from_default(@, pos)]
                                ELSE d3[i]]
                   ELSE d1
         IN  drawdown_position_groups(Tail(ps), is_buy, d2)

RECURSIVE group_by_setup_id(_, _)
\* position_groups[pos.comment.split('_')[1]].append(pos) for the positions
\* the loop does not skip
group_by_setup_id(ps, d) ==
    IF ps = <<>> THEN d
    ELSE group_by_setup_id(Tail(ps),
                           dict_append(d, Split(Head(ps).comment)[2], Head(ps)))

\* group_positions_by_setup of trading_bot.py skips a position without a
\* comment of two parts
HasSetupId(p) ==
    p.comment # <<>> /\ Len(Split(p.comment)) >= 2

\* the three dicts for one list of positions
position_groups(ps) ==
    [drawdown |->
        drawdown_position_groups(SelectSeq(ps, LAMBDA p : p.type = 0), TRUE,
            <<[key |-> default_setup_id(TRUE), members |-> <<>>]>>)
        \o drawdown_position_groups(SelectSeq(ps, LAMBDA p : p.type = 1), FALSE,
            <<[key |-> default_setup_id(FALSE), members |-> <<>>]>>),
     progressive |-> group_by_setup_id(SelectSeq(ps, IsProgressiveTag), <<>>),
     by_setup |-> group_by_setup_id(SelectSeq(ps, HasSetupId), <<>>)]

\* the comments the bot has written on the positions of the account
GroupComments ==
    {<<>>, <<"m">>, U(U(sACE, Str(17)), Str(1)), U(U(sPROG, Str(17)), Str(2)),
     U(U(sPROG, Str(18)), Str(1)),
     layer_comment(LayeringSettings, default_setup_id(TRUE), 1, 1)}

ExternalOpenTagged ==
    /\ loc[1].phase = "none"
    /\ ExternalOpen(MaxExternal, {0, 1}, GroupComments, {1}, {0}, {0})

\* the positions are read and grouped
GroupPositions ==
    /\ loc[1].phase = "none"
    /\ book # <<>>
    /\ loc' = [loc EXCEPT ![1] =
                  [queue |-> <<>>, n |-> 0, opened |-> <<>>, phase |-> "group",
                   wait |-> 0, positions |-> positions_get(book),
                   position_groups |-> position_groups(positions_get(book))]]
    /\ UNCHANGED <<brokerVars, clock, appVars, sweeps, running, pc, retry_count,
                   error_message, log, lastSent>>

\* the groups are dropped at the end of the cycle
GroupReturn ==
    /\ loc[1].phase = "group"
    /\ loc' = [loc EXCEPT ![1] = NoLocals]
    /\ UNCHANGED <<brokerVars, clock, appVars, sweeps, running, pc, retry_count,
                   error_message, log, lastSent>>

InitGroups ==
    InitWith([b \in Bots |-> LayeringSettings], {})

NextGroups ==
    \/ ExternalOpenTagged
    \/ GroupPositions
    \/ GroupReturn

SpecGroups ==
    InitGroups /\ [][NextGroups]_vars

\* in how many places of the groups of d the position p stands
RECURSIVE Occurrences(_, _)
Occurrences(d, p) ==
    IF d = <<>> THEN 0
    ELSE Cardinality({i \in 1..Len(Head(d).members) : Head(d).members[i] = p})
             + Occurrences(Tail(d), p)

\* C18: grouping is a partition that does not change when it is redone: each
\* position whose tag the grouper reads stands in exactly one group, the
\* others in none, and the same positions give the same groups again.
C18_GroupingPartition ==
    loc[1].phase = "group" =>
        LET g == loc[1].position_groups
            ps == loc[1].positions
        IN  /\ \A i \in 1..Len(ps) :
                  /\ Occurrences(g.drawdown, ps[i]) = 1
                  /\ Occurrences(g.progressive, ps[i]) =
                         (IF IsProgressiveTag(ps[i]) THEN 1 ELSE 0)
                  /\ Occurrences(g.by_setup, ps[i]) =
                         (IF HasSetupId(ps[i]) THEN 1 ELSE 0)
            /\ position_groups(positions_get(book)) = g

\* a tagged position stands in the group of its setup, an untagged one of the
\* same direction in the default group
C18_Witness ==
    /\ loc[1].phase = "group"
    /\ \E i, j \in 1..Len(loc[1].position_groups.drawdown) :
          /\ i # j
          /\ loc[1].position_groups.drawdown[i].key = default_setup_id(TRUE)
          /\ loc[1].position_groups.drawdown[i].members # <<>>
          /\ loc[1].position_groups.drawdown[j].key = Str(17)
          /\ loc[1].position_groups.drawdown[j].members # <<>>
          /\ loc[1].position_groups.drawdown[j].members[1].type = 0

-----------------------------------------------------------------------------
(* The position index of a tag within its setup                            *)

\* the open positions whose comment the bot wrote
TaggedOpen ==
    {t \in DOMAIN book : IsBotTag(book[t].comment)}

\* C19: no two open positions of the same setup carry the same position index:
\* two open positions never bear the same tag (the same setup id, layer and
\* position index).
C19_PositionIndexUnique ==
    \A t, u \in TaggedOpen : book[t].comment = book[u].comment => t = u

-----------------------------------------------------------------------------
(* Specification of the progressive lock-in engine: one setup of PROG      *)
(* positions, the quote moving, manage_positions                           *)

\* /start_instance with the strategy "progressive"
ProgressiveSettings ==
    [TrailingSettings EXCEPT !.strategy_type = "progressive",
                             !.enable_progressive = TRUE,
                             !.enable_trailing_sl = FALSE,
                             !.tp_points = 30,
                             !.positive_sl_points = 10,
                             !.breakeven_trigger_points = 10]

\* f"PROG_{setup_id}_{position_num}"
PROGComments ==
    {U(U(sPROG, Str(17)), Str(1)), U(U(sPROG, Str(17)), Str(2))}

ProgLevels ==
    {0 - 20, 0, 20}

\* positions of the account tagged as the progressive entry tags them, the
\* target taken off or moved out by hand
ExternalOpenPROG ==
    /\ bid = PriceAt(0)
    /\ ExternalOpen(MaxExternal, {0, 1}, PROGComments, {1}, {30}, {0, 40})

TickProg ==
    Tick(ProgLevels)

InitProg ==
    InitWith([b \in Bots |-> ProgressiveSettings], {1})

NextProg ==
    \/ ExternalOpenPROG
    \/ TickProg
    \/ ManagePositions(1)

SpecProg ==
    InitProg /\ [][NextProg]_vars

\* the open positions of setup 17 with the position index n
ProgIndexed(n) ==
    {t \in DOMAIN book : book[t].comment = U(U(sPROG, Str(17)), Str(n))}

\* the calls manage_positions of bot 1 makes for the account as it is
CallsNow ==
    manage_positions(cfg[1], positions_get(book), bid)

\* C20: in a setup of at least 2 positions, when the position with index 1 has
\* profit points >= tp_points / positions_per_setup, the engine sends a close
\* for it and a stop-loss modify to its own open price for every other
\* position of the setup.
C20_FirstTargetLocksIn ==
    \A t \in ProgIndexed(1), u \in ProgIndexed(2) :
        (profit_points(book[t], bid) * cfg[1].positions_per_setup
            >= cfg[1].tp_points)
        => /\ \E i \in 1..Len(CallsNow) :
                 /\ CallsNow[i].kind = "close"
                 /\ CallsNow[i].ticket = t
           /\ \E i \in 1..Len(CallsNow) :
                 /\ CallsNow[i].kind = "sl"
                 /\ CallsNow[i].ticket = u
                 /\ CallsNow[i].price = book[u].price_open

\* C21: whenever the position with index 2 has profit points >= its target,
\* 2 * tp_points / positions_per_setup, the engine sends a close for it, with
\* or without the position of index 1 still open.
C21_SecondTargetCloses ==
    \A t \in ProgIndexed(2) :
        (profit_points(book[t], bid) * cfg[1].positions_per_setup
            >= 2 * cfg[1].tp_points)
        => \E i \in 1..Len(CallsNow) :
              /\ CallsNow[i].kind = "close"
              /\ CallsNow[i].ticket = t

-----------------------------------------------------------------------------
(* The layers of a cycle                                                   *)

\* the layer field of a tag of add_layer, the last but one: "L<layer_num>"
LayerField(comment) ==
    IF Len(Split(comment)) >= 2
    THEN Split(comment)[Len(Split(comment)) - 1] ELSE <<>>

\* the orders of the running handler that opened a layer position
LayerOpens ==
    {i \in OpensSent : log[i].engine = "drawdown"}

\* the layer positions that were open before the running handler began
LayersBefore ==
    {t \in DOMAIN book :
        /\ StartsWith(LayerField(book[t].comment), sL)
        /\ \A i \in LayerOpens : log[i].ticket # t}

\* C22: the layer a cycle opens is numbered next: its layer number is not the
\* number of a layer the group already has (with layer 1 open, layer 2 is
\* opened).
C22_LayerNumberedNext ==
    \A i \in LayerOpens : \A t \in LayersBefore :
        book[t].type = log[i].snap.type
            => LayerField(book[t].comment) # LayerField(log[i].snap.comment)

-----------------------------------------------------------------------------
(* Specification of the drawdown layering engine: positions opened by hand, *)
(* the quote falling as far as max_drawdown_points, manage_positions        *)

\* the layering instance with room for a second layer
DeepLayeringSettings ==
    [LayeringSettings EXCEPT !.max_layers = 2]

LayerLevels ==
    {0 - 40, 0 - 20, 0, 10}

TickLayers ==
    Tick(LayerLevels)

InitLayers ==
    InitWith([b \in Bots |-> DeepLayeringSettings], {1})

\* TradingBot.manage_positions of bot b, the broker taking every order
ManagePositionsFilled(b) ==
    /\ conn = "up"
    /\ LET st == ExecAll(ExecState(book, nextTicket,
                       manage_positions(cfg[b], positions_get(book), bid)),
                     b, {}, conn)
       IN  /\ book' = st.book
           /\ nextTicket' = st.next
           /\ log' = st.log
           /\ lastSent' = st.sent
    /\ UNCHANGED <<bid, conn, clock, botVars>>

NextLayers ==
    \/ ExternalOpenManual
    \/ TickLayers
    \/ ManagePositionsFilled(1)

SpecLayers ==
    InitLayers /\ [][NextLayers]_vars

\* the open positions of one side, as manage_drawdown_layers lists them
SidePositions(is_buy) ==
    SelectSeq(positions_get(book),
              LAMBDA p : p.type = (IF is_buy THEN 0 ELSE 1))

\* the setups of one side whose drawdown points are at or beyond
\* max_drawdown_points at the current quote
AtRiskCap(is_buy) ==
    LET keys == group_keys(SidePositions(is_buy), is_buy)
    IN  {keys[k] : k \in {j \in 1..Len(keys) :
            LET g == setup_positions(SidePositions(is_buy), is_buy, keys[j])
            IN  /\ g # <<>>
                /\ DrawdownNum(g, is_buy, bid)
                       >= cfg[1].max_drawdown_points * DrawdownDen(g)}}

\* the tags add_layer gives to the layer positions of a setup
LayerTagsOf(setup_id) ==
    {layer_comment(cfg[1], setup_id, ln, pn) :
        ln \in 1..MaxLayerNum, pn \in 1..cfg[1].positions_per_layer}

C24_SharedTargetAfterLayer ==
    \A i \in LayerOpens :
        (\A j \in DOMAIN log : log[j].res = "done")
        => LET is_buy == log[i].snap.type = 0
               g == SidePositions(is_buy)
           IN  \A k \in 1..Len(g) :
                   g[k].tp = min_profit_price(cfg[1], g, is_buy)

\* the calls of manage_exit_signal_positions in the cycle that has just run
ExitCloses ==
    {i \in DOMAIN log : log[i].engine = "exit" /\ log[i].kind = "close"}

\* one of the positions the cycle closed had profit points >= tp_points
MaxTpWasHit ==
    \E i \in ExitCloses :
        profit_points(log[i].snap, bid) >= cfg[log[i].bot].tp_points

\* C26: when a position of the symbol has profit points >= tp_points,
\* manage_exit_signal_positions sends a close for every position of the
\* symbol: as many closes, for distinct positions, as the account held when
\* the engine began.
C26_MaxTargetClosesAll ==
    MaxTpWasHit
    => /\ Cardinality({log[i].snap.ticket : i \in ExitCloses})
              = log[1].open_count
       /\ \A i \in 1..log[1].open_count : i \in ExitCloses

\* a cycle closed two positions, one at its target and one short of it
C26_Witness ==
    \E i, j \in ExitCloses :
        /\ profit_points(log[i].snap, bid) >= cfg[1].tp_points
        /\ profit_points(log[j].snap, bid) < cfg[1].tp_points
        /\ log[i].res = "done" /\ log[j].res = "done"

\* the EMA of the signal has crossed the midline against the side of p:
\* downwards for a long, upwards for a short
ReversalAgainst(p) ==
    LET prev_smi_ema == smi_signal_ema[1]
        current_smi_ema == smi_signal_ema[2]
    IN  IF IsBuy(p) THEN prev_smi_ema > 0 /\ current_smi_ema <= 0
        ELSE prev_smi_ema < 0 /\ current_smi_ema >= 0

-----------------------------------------------------------------------------
(* Layers and the drawdown of the direction they are opened for *)

\* the average entry of the positions g is on the losing side of the quote
InDrawdown(g, is_buy) ==
    /\ g # <<>>
    /\ IF is_buy THEN SumOpen(g) > Len(g) * bid
       ELSE SumOpen(g) < Len(g) * bid

-----------------------------------------------------------------------------
(* The lock-in value of a checkpoint *)

\* the locked points, in tenths, with the progress counted from the
\* checkpoint reached: (k - 1) * checkpointSize * 0.8, plus progress * 0.8 *
\* 0.5 when the progress exceeds 30% of checkpointSize
LockInFromCheckpoint(c, pp) ==
    LET k == current_checkpoint(c, pp)
        progress == pp - checkpoint_size(c) * k
    IN  (k - 1) * checkpoint_size(c) * 8
        + (IF 10 * progress > 3 * checkpoint_size(c)
           THEN progress * 4 ELSE 0)

\* the stop-loss orders of the trailing engine in the cycle that has just run
TrailingStops ==
    {i \in DOMAIN log : log[i].engine = "trailing" /\ log[i].kind = "sl"}

\* C29: for a position beyond checkpoint 1 the engine sends a stop that lies
\* (checkpoint - 1) * checkpointSize * 0.8 points from the open price, plus
\* 0.4 times the progress into the current checkpoint when that progress
\* exceeds 30% of checkpointSize.
C29_CheckpointLockIn ==
    \A i \in TrailingStops :
        LET p == log[i].snap
            pp == profit_points(p, bid)
            c == cfg[log[i].bot]
        IN  current_checkpoint(c, pp) > 1
            => (IF IsBuy(p) THEN log[i].price - p.price_open
                ELSE p.price_open - log[i].price) * 10
                   = LockInFromCheckpoint(c, pp) * point_value

-----------------------------------------------------------------------------
(* A cycle without history bars *)

\* get_historical_data has returned None in the running cycle of bot b
DataUnavailable(b) ==
    pc[b] = "batch" /\ loc[b].phase = "no_data"

\* C30: in a cycle in which the history bars are unavailable the bot sends no
\* broker action, neither a close nor a modify nor an open.
C30_NoActionWithoutData ==
    \A b \in Bots :
        DataUnavailable(b) => \A i \in DOMAIN log : log[i].bot # b

-----------------------------------------------------------------------------
(* DrawdownLayerManager.calculate_tp_for_layer (trading_bot.py), applied as *)
(* test_drawdown_layering.py applies it to the setups of the account        *)

\* config.py: POSITIONS_PER_LAYER and MINIMUM_PROFIT_PER_POSITION
LayerManagerSettings ==
    [TrailingSettings EXCEPT !.positions_per_layer = 3,
                             !.minimum_profit_per_position = 20]

\* f"ACE_{setup_id}_{position_id}_L{layer_number}" of setup 7
ACEComments ==
    {U(U(U(sACE, Str(7)), Str(1)), sL \o Str(1)),
     U(U(U(sACE, Str(7)), Str(2)), sL \o Str(1))}

TpLevels ==
    {0 - 20, 0, 20}

\* the positions whose comment carries the setup id in its second field
positions_of_setup(ps, setup_id) ==
    SelectSeq(ps, LAMBDA p : /\ p.comment # <<>>
                             /\ Len(Split(p.comment)) >= 2
                             /\ Split(p.comment)[2] = setup_id)

\* calculate_tp_for_layer for a setup with open positions, every volume one
\* lot_size: the price is num / den tenths of a pip
calculate_tp_for_layer(c, ps, setup_id, is_buy, current_price) ==
    LET positions == positions_of_setup(ps, setup_id)
        total_volume == Len(positions) + c.positions_per_layer
        total_position_value ==
            SumOpen(positions) + current_price * c.positions_per_layer
        min_profit == c.minimum_profit_per_position * point_value
                          * (IF is_buy THEN 1 ELSE 0 - 1)
    IN  [num |-> total_position_value + min_profit * total_volume,
         den |-> total_volume]

\* the locals of the test once calculate_tp_for_layer has returned
TpLocals(setup_id, is_buy, tp_price) ==
    [queue |-> <<>>, n |-> 0, opened |-> <<>>, phase |-> "tp", wait |-> 0,
     setup_id |-> setup_id, is_buy |-> is_buy, tp_price |-> tp_price]

\* a position of setup 7 is on the account, all of them of one side
ExternalOpenACE ==
    /\ loc[1].phase = "none"
    /\ \E type \in {0, 1} :
          /\ \A t \in DOMAIN book : book[t].type = type
          /\ ExternalOpen(MaxExternal, {type}, ACEComments, {1}, {0}, {0})

TickTp ==
    /\ loc[1].phase = "none"
    /\ Tick(TpLevels)

\* tp_price = layer_manager.calculate_tp_for_layer(setup_id, is_buy,
\* current_price), for a setup that has positions
CalculateTp ==
    /\ loc[1].phase = "none"
    /\ positions_of_setup(positions_get(book), Str(7)) # <<>>
    /\ LET is_buy == positions_of_setup(positions_get(book), Str(7))[1].type = 0
       IN  loc' = [loc EXCEPT ![1] =
                      TpLocals(Str(7), is_buy,
                               calculate_tp_for_layer(cfg[1], positions_get(book),
                                                      Str(7), is_buy, bid))]
    /\ UNCHANGED <<brokerVars, clock, appVars, sweeps, running, pc, retry_count,
                   error_message, log, lastSent>>

\* the test has printed its verdict
TpReturn ==
    /\ loc[1].phase = "tp"
    /\ loc' = [loc EXCEPT ![1] = NoLocals]
    /\ UNCHANGED <<brokerVars, clock, appVars, sweeps, running, pc, retry_count,
                   error_message, log, lastSent>>

InitTp ==
    InitWith([b \in Bots |-> LayerManagerSettings], {})

NextTp ==
    \/ ExternalOpenACE
    \/ TickTp
    \/ CalculateTp
    \/ TpReturn

SpecTp ==
    InitTp /\ [][NextTp]_vars

\* C25: the take-profit calculate_tp_for_layer returns lies at least
\* MINIMUM_PROFIT_PER_POSITION pips beyond the volume-weighted average entry
\* of the existing positions of the setup, in the profit direction, whatever
\* the current price.
C25_TpBeyondAverageEntry ==
    loc[1].phase = "tp"
    => LET g == positions_of_setup(positions_get(book), loc[1].setup_id)
           tp == loc[1].tp_price
           gain == tp.num * Len(g) - SumOpen(g) * tp.den
       IN  (IF loc[1].is_buy THEN gain ELSE 0 - gain)
               >= cfg[1].minimum_profit_per_position * point_value
                      * tp.den * Len(g)

-----------------------------------------------------------------------------
(* A start request whose initialize_mt5 fails *)

\* C31: a bot whose start failed (no thread was started for it) is not left
\* in the registry as running: its entry, if any, does not say running, so
\* that a status query does not report it and a later /start of the key is
\* not skipped.
C31_FailedStartNotRunning ==
    \A k \in Keys :
        (bot_instances[k] # 0 /\ pc[bot_instances[k]] = "stopped")
        => ~running[bot_instances[k]]

-----------------------------------------------------------------------------
(* TradingBot.should_open_trade, called by execute_trade_setup: the guards *)
(* in the order of the code, on an account with positions opened by hand,  *)
(* at any time of the day, with and without history and signal             *)

\* trading_start_time '08:00' and trading_end_time '17:00', in minutes
trading_start_time == 480
trading_end_time == 1020

\* the local times of the calls: the minute before the window, its first
\* minute, its last minute, the minute it ends
LocalTimes ==
    {trading_start_time - 1, trading_start_time,
     trading_end_time - 1, trading_end_time}

\* trading_start_time <= now < trading_end_time
InTradingHours(now) ==
    trading_start_time <= now /\ now < trading_end_time

RECURSIVE total_profit(_, _)
\* total_profit += position.profit + position.swap, the swap being 0
total_profit(ps, q) ==
    IF ps = <<>> THEN 0
    ELSE profit_points(Head(ps), q) + total_profit(Tail(ps), q)

\* should_open_trade with a check_entry_conditions that answers the call:
\* the guards as they are, then the signal
should_open_trade_signalled(c, ps, q, df, long_condition, short_condition) ==
    IF /\ c.strategy_type = "exit_signal_or_max_tp"
       /\ Len(ps) >= c.reentry_count
    THEN [value |-> FALSE, at |-> "reentry_count"]
    ELSE IF /\ c.strategy_type = "exit_signal_or_max_tp"
            /\ Len(ps) > 0
            /\ total_profit(ps, q) >= 0
    THEN [value |-> FALSE, at |-> "total_profit"]
    ELSE IF is_weekend_trading_hours
    THEN [value |-> FALSE, at |-> "weekend"]
    ELSE IF c.prop_firm_mode
    THEN [value |-> FALSE, at |-> "is_trading_hours"]
    ELSE IF df # "frame"
    THEN [value |-> FALSE, at |-> "history"]
    ELSE [value |-> \/ c.trade_direction \in {"BOTH", "LONG"} /\ long_condition
                    \/ c.trade_direction \in {"BOTH", "SHORT"} /\ short_condition,
          at |-> "signal"]

\* the statement at which should_open_trade returns, and what it returns.
\* self.is_trading_hours is defined nowhere: with prop_firm_mode the test of
\* the trading hours raises AttributeError; check_entry_conditions raises
\* TypeError; the except clause returns False for both.
should_open_trade_return(c, ps, q, df, long_condition, short_condition) ==
    IF /\ c.strategy_type = "exit_signal_or_max_tp"
       /\ Len(ps) >= c.reentry_count
    THEN [value |-> FALSE, at |-> "reentry_count"]
    ELSE IF /\ c.strategy_type = "exit_signal_or_max_tp"
            /\ Len(ps) > 0
            /\ total_profit(ps, q) >= 0
    THEN [value |-> FALSE, at |-> "total_profit"]
    ELSE IF is_weekend_trading_hours
    THEN [value |-> FALSE, at |-> "weekend"]
    ELSE IF c.prop_firm_mode
    THEN [value |-> FALSE, at |-> "is_trading_hours"]
    ELSE IF df # "frame"
    THEN [value |-> FALSE, at |-> "history"]
    ELSE IF check_entry_conditions = "TypeError"
    THEN [value |-> FALSE, at |-> "check_entry_conditions"]
    ELSE [value |-> \/ c.trade_direction \in {"BOTH", "LONG"} /\ long_condition
                    \/ c.trade_direction \in {"BOTH", "SHORT"} /\ short_condition,
          at |-> "signal"]

\* /start_instance with the strategy "hybrid_progressive_drawdown"
HybridInstanceSettings ==
    [LayeringSettings EXCEPT !.strategy_type = "hybrid_progressive_drawdown",
                             !.tp_points = 30]

\* setup_id = int(time.time())
SetupIds ==
    {Str(7), Str(8)}

\* existing_setup_ids of the progressive branch, as a sequence
existing_setup_ids(ps, prefixes) ==
    LET tagged == SelectSeq(ps, LAMBDA p :
                      \E x \in prefixes : StartsWith(p.comment, x \o <<"_">>))
    IN  Dedup([i \in 1..Len(tagged) |-> Split(tagged[i].comment)[2]])

\* list(existing_setup_ids)[-1]: any element of the set, <<>> standing for
\* None
latest_setup_ids(ps, prefixes) ==
    IF existing_setup_ids(ps, prefixes) = <<>> THEN {<<>>}
    ELSE {existing_setup_ids(ps, prefixes)[i] :
             i \in 1..Len(existing_setup_ids(ps, prefixes))}

\* the positions_per_setup opens of the progressive branch (prefix PROG) and
\* of the hybrid branch (prefix HYBRID): a setup that is short of positions
\* is continued, otherwise a new one is begun
progressive_setup_calls(c, ps, is_buy, q, setup_id, latest, prefix, prefixes) ==
    LET current_setup_positions ==
            IF latest = <<>> THEN <<>>
            ELSE SelectSeq(ps, LAMBDA p :
                     \E x \in prefixes : StartsWith(p.comment, U(x, latest)))
        continued == latest # <<>>
                       /\ Len(current_setup_positions) < c.positions_per_setup
        id == IF continued THEN latest ELSE setup_id
        positions_to_open ==
            IF continued
            THEN c.positions_per_setup - Len(current_setup_positions)
            ELSE c.positions_per_setup
        start_position ==
            IF continued THEN Len(current_setup_positions) + 1 ELSE 1
        sl_price == IF is_buy THEN q - c.sl_points * point_value
                    ELSE q + c.sl_points * point_value
        tp_distance(position_num) ==
            (c.tp_points * position_num * point_value)
                \div c.positions_per_setup
    IN  [i \in 1..positions_to_open |->
            OpenCall("entry",
                     NewPosition(0, IF is_buy THEN 0 ELSE 1, q, sl_price,
                                 IF is_buy
                                 THEN q + tp_distance(start_position + i - 1)
                                 ELSE q - tp_distance(start_position + i - 1),
                                 c.magic_number,
                                 IF c.comment_off THEN <<>>
                                 ELSE U(U(prefix, id),
                                        Str(start_position + i - 1))),
                     0, FALSE)]

\* the order_send calls of execute_trade_setup(is_buy) past its guard: the
\* branches in the order of the if / elif chain
execute_trade_setup_calls(c, ps, is_buy, q, setup_id, latest) ==
    LET one(sl_points, tp_points, comment) ==
            <<OpenCall("entry",
                       NewPosition(0, IF is_buy THEN 0 ELSE 1, q,
                                   IF is_buy THEN q - sl_points * point_value
                                   ELSE q + sl_points * point_value,
                                   IF is_buy THEN q + tp_points * point_value
                                   ELSE q - tp_points * point_value,
                                   c.magic_number,
                                   IF c.comment_off THEN <<>> ELSE comment),
                       0, FALSE)>>
    IN  IF c.strategy_type = "exit_signal_or_max_tp"
        THEN one(c.sl_points, c.tp_points,
                 U(U(sEXIT, setup_id), Str(Len(ps) + 1)))
        ELSE IF c.enable_progressive
        THEN progressive_setup_calls(c, ps, is_buy, q, setup_id, latest,
                                     sPROG, {sPROG})
        ELSE IF c.enable_progressive /\ c.enable_drawdown_layering
        THEN progressive_setup_calls(c, ps, is_buy, q, setup_id, latest,
                                     sHYBRID, {sPROG, sHYBRID})
        ELSE IF c.enable_drawdown_layering
        THEN Flatten([i \in 1..c.positions_per_layer |->
                 one(c.sl_points, c.tp_points,
                     U(U(U(sDDL, setup_id), Str(1)), Str(i)))])
        ELSE IF c.strategy_type = "trailing_stop" \/ c.enable_trailing_sl
        THEN one(c.trailing_sl_points, c.trailing_tp_points,
                 U(U(sTSL, setup_id), Str(Len(ps) + 1)))
        ELSE <<>>

\* the strategies of /start, each with and without prop_firm_mode
EntrySettings ==
    {[c EXCEPT !.prop_firm_mode = m] :
        c \in {TrailingSettings, ProgressiveSettings, LayeringSettings,
               ExitInstanceSettings, HybridInstanceSettings,
               [TrailingSettings EXCEPT !.strategy_type = "drawdown_layering",
                                        !.enable_trailing_sl = FALSE,
                                        !.enable_drawdown_layering = TRUE]},
        m \in BOOLEAN}

\* the locals of execute_trade_setup(is_buy) once should_open_trade returned
EntryLocals(now, df, long_condition, short_condition, is_buy, ret) ==
    [queue |-> <<>>, n |-> 0, opened |-> <<>>, phase |-> "should_open",
     wait |-> 0, now |-> now, df |-> df, long_condition |-> long_condition,
     short_condition |-> short_condition, is_buy |-> is_buy, ret |-> ret]

\* execute_trade_setup(is_buy) calls should_open_trade
ShouldOpenTrade ==
    /\ loc[1].phase = "none"
    /\ \E now \in LocalTimes, df \in get_historical_data,
          long_condition \in BOOLEAN, short_condition \in BOOLEAN,
          is_buy \in BOOLEAN :
          loc' = [loc EXCEPT ![1] =
                     EntryLocals(now, df, long_condition, short_condition,
                                 is_buy,
                                 should_open_trade_return(
                                     cfg[1], positions_get(book), bid, df,
                                     long_condition, short_condition))]
    /\ UNCHANGED <<brokerVars, clock, appVars, sweeps, running, pc, retry_count,
                   error_message, log, lastSent>>

\* execute_trade_setup(is_buy) after should_open_trade: return [] when it
\* refused, the orders of the branch of the strategy otherwise
ExecuteTradeSetupReturn ==
    /\ loc[1].phase = "should_open"
    /\ \E setup_id \in SetupIds,
          latest \in latest_setup_ids(positions_get(book),
                       IF cfg[1].enable_progressive THEN {sPROG}
                       ELSE {sPROG, sHYBRID}) :
          LET calls == IF ~loc[1].ret.value THEN <<>>
                       ELSE execute_trade_setup_calls(
                                cfg[1], positions_get(book), loc[1].is_buy,
                                bid, setup_id, latest)
              st == ExecAll(ExecState(book, nextTicket, calls), 1, {}, conn)
          IN  /\ book' = st.book
              /\ nextTicket' = st.next
              /\ log' = st.log
              /\ lastSent' = st.sent
    /\ loc' = [loc EXCEPT ![1].phase = "returned"]
    /\ UNCHANGED <<bid, conn, clock, appVars, sweeps, running, pc, retry_count,
                   error_message>>

\* the caller has the list execute_trade_setup returned
ExecuteTradeSetupDone ==
    /\ loc[1].phase = "returned"
    /\ loc' = [loc EXCEPT ![1] = NoLocals]
    /\ UNCHANGED <<brokerVars, clock, appVars, sweeps, running, pc, retry_count,
                   error_message, log, lastSent>>

ExternalOpenEntry ==
    /\ loc[1].phase = "none"
    /\ ExternalOpenManual

EntryLevels ==
    {0 - 20, 0}

TickEntry ==
    /\ loc[1].phase = "none"
    /\ Tick(EntryLevels)

\* Saturday comes, and Monday
ClockEntry ==
    /\ loc[1].phase = "none"
    /\ clock' = IF clock = "weekday" THEN "saturday_midnight" ELSE "weekday"
    /\ UNCHANGED <<brokerVars, appVars, sweeps, running, pc, retry_count,
                   error_message, loc, log, lastSent>>

InitEntry ==
    \E c \in EntrySettings : InitWith([b \in Bots |-> c], {})

NextEntry ==
    \/ ExternalOpenEntry
    \/ TickEntry
    \/ ClockEntry
    \/ ShouldOpenTrade
    \/ ExecuteTradeSetupReturn
    \/ ExecuteTradeSetupDone

SpecEntry ==
    InitEntry /\ [][NextEntry]_vars

\* should_open_trade has returned to execute_trade_setup
Decided ==
    loc[1].phase = "should_open"

\* C32: with prop_firm_mode, should_open_trade returns False whenever the
\* local time is outside [trading_start_time, trading_end_time), and inside
\* that window it is not the trading-hours check that refuses the entry.
C32_PropFirmHours ==
    (Decided /\ cfg[1].prop_firm_mode)
    => /\ ~InTradingHours(loc[1].now) => ~loc[1].ret.value
       /\ InTradingHours(loc[1].now) => loc[1].ret.at # "is_trading_hours"

\* none of the guards of should_open_trade applies: the position count and
\* the drawdown test of the exit-signal strategy, the weekend block, the
\* prop-firm hours, the length of the history
NoGuardBlocks ==
    /\ cfg[1].strategy_type = "exit_signal_or_max_tp"
          => /\ Len(positions_get(book)) < cfg[1].reentry_count
             /\ \/ book = <<>>
                \/ total_profit(positions_get(book), bid) < 0
    /\ ~is_weekend_trading_hours
    /\ ~cfg[1].prop_firm_mode
    /\ loc[1].df = "frame"

\* the history gives a signal that trade_direction permits
PermittedSignal ==
    \/ cfg[1].trade_direction \in {"BOTH", "LONG"} /\ loc[1].long_condition
    \/ cfg[1].trade_direction \in {"BOTH", "SHORT"} /\ loc[1].short_condition

\* C39: for every strategy, when no guard blocks and an entry signal that
\* trade_direction permits is present, should_open_trade returns True (and
\* execute_trade_setup goes on to its open orders).
C39_EntryPossible ==
    (Decided /\ NoGuardBlocks /\ PermittedSignal) => loc[1].ret.value

\* execute_trade_setup has returned
Returned ==
    loc[1].phase = "returned"

\* the orders of execute_trade_setup that opened a position
EntryOpens ==
    {i \in OpensSent : log[i].engine = "entry"}

-----------------------------------------------------------------------------
(* Specification of the exit engine with a broker that rejects orders:     *)
(* positions opened by hand, the quote moving, manage_positions            *)

ExitLevels ==
    {0 - 20, 0, 20}

TickExit ==
    Tick(ExitLevels)

InitExit ==
    InitWith([b \in Bots |-> ExitInstanceSettings], {1})

NextExit ==
    \/ ExternalOpenManual
    \/ TickExit
    \/ ManagePositions(1)

SpecExit ==
    InitExit /\ [][NextExit]_vars

\* the orders of the cycle that has just run which the broker rejected
Rejected ==
    {i \in DOMAIN log : log[i].res = "rejected"}

-----------------------------------------------------------------------------
(* Specification of the progressive engine over stops that are already     *)
(* locked in: one setup of PROG positions, a stop moved past the open      *)
(* price by hand, the quote moving, manage_positions                       *)

\* the open price of p moved by positive_sl_points to the winning side
positive_sl(c, p) ==
    IF IsBuy(p) THEN p.price_open + c.positive_sl_points * point_value
    ELSE p.price_open - c.positive_sl_points * point_value

\* the stop new_sl protects less of the position p than the stop it has
Looser(p, new_sl) ==
    /\ p.sl # 0
    /\ \/ new_sl = 0
       \/ IF IsBuy(p) THEN new_sl < p.sl ELSE new_sl > p.sl

\* a person moves the stop of a position in profit to positive_sl_points
\* past its open price
ExternalLockIn ==
    /\ conn # "dead"
    /\ \E t \in DOMAIN book :
          /\ book[t].sl # positive_sl(cfg[1], book[t])
          /\ ~Looser(book[t], positive_sl(cfg[1], book[t]))
          /\ IF IsBuy(book[t]) THEN positive_sl(cfg[1], book[t]) < bid
             ELSE positive_sl(cfg[1], book[t]) > bid
          /\ book' = [book EXCEPT ![t].sl = positive_sl(cfg[1], book[t])]
    /\ log' = <<>>
    /\ UNCHANGED <<nextTicket, bid, conn, clock, botVars, lastSent>>

NextLock ==
    \/ ExternalOpenPROG
    \/ TickProg
    \/ ExternalLockIn
    \/ ManagePositions(1)

SpecLock ==
    InitProg /\ [][NextLock]_vars

-----------------------------------------------------------------------------
(* The cycle of a lost connection *)

\* the thread of bot 1 is in the part of a cycle that decides: the weekend
\* sweep, manage_positions or the entry section
Deciding ==
    pc[1] \in {"weekend", "batch"}

\* C36: a cycle whose connection check and reconnect both fail goes to the
\* wait (or ends the loop) without weekend sweep, position management or
\* entry; the loop decides only with the count of failed attempts at 0, and
\* enters the deciding part of a cycle only from a connection check that
\* found the connection up or restored it.
C36_NoDecisionsDisconnected ==
    /\ [](Deciding => retry_count[1] = 0)
    /\ [][(pc[1] = "verify" /\ pc'[1] # "verify" /\ conn' # "up")
            => (pc'[1] \in {"sleep", "stopped"} /\ log' = log
                /\ book' = book)]_vars
    /\ [][(~Deciding /\ Deciding')
            => (pc[1] = "verify" /\ conn' = "up")]_vars

\* positions are open, the reconnect of the cycle has failed and the loop
\* waits for the next attempt
C36_Witness ==
    /\ pc[1] = "sleep"
    /\ conn = "down"
    /\ retry_count[1] > 0
    /\ retry_count[1] < max_retries
    /\ book # <<>>

-----------------------------------------------------------------------------
(* Specification of the loop of a trailing instance, with comments on or   *)
(* off: positions opened by hand, the quote moving, the connection lost,   *)
(* the thread of the bot                                                   *)

\* /start with the strategy "trailing_stop" and the comment_off setting
TrailingOffSettings(off) ==
    [TrailingSettings EXCEPT !.comment_off = off]

InitSingle ==
    \E off \in BOOLEAN :
        InitWith([b \in Bots |-> TrailingOffSettings(off)], {1})

NextSingle ==
    \/ ExternalOpenRun
    \/ TickRun
    \/ ConnectionLost
    \/ Thread(1)

SpecSingle ==
    InitSingle /\ [][NextSingle]_vars

\* the open positions that carry the magic number of the bot: positions
\* opened by hand carry 0
OpenedByBot ==
    {t \in DOMAIN book : book[t].magic = cfg[1].magic_number}

-----------------------------------------------------------------------------
(* The targets of a setup whose layer failed *)

\* the orders of the running handler that add_layer sent and the broker
\* rejected: add_layer rolls back and returns no positions
FailedLayers ==
    {i \in DOMAIN log : /\ log[i].engine = "drawdown"
                        /\ log[i].kind = "open"
                        /\ log[i].res = "rejected"}

\* C40: when add_layer fails and returns no positions, the cycle changes no
\* take-profit of the positions of that setup.
C40_NoTargetChangeOnFailedLayer ==
    \A i \in FailedLayers :
        \A j \in DOMAIN log :
            (/\ j > i
             /\ log[j].engine = "drawdown"
             /\ log[j].kind = "tp"
             /\ log[j].snap.type = log[i].snap.type)
            => log[j].res # "done"

=============================================================================
